---- MODULE Spec2Model ----
(***************************************************************************)
(* The keypoint-to-geometry pipeline of ai-mirror-stage-2:                 *)
(*   extractPixelMeasurements (utils/measurements.js),                     *)
(*   pxToCm (src/utils/pixelToCm.js),                                      *)
(*   BodyMesh3D and Clothing3DRenderer (src/App.jsx).                      *)
(*                                                                         *)
(* Coordinates are fixed-point numbers, Unit steps to the pixel.  The     *)
(* keypoints fed in lie on whole pixels, so the halves, quarters and the  *)
(* 0.4, 0.15, 1.25 ... multiples taken by the mesh builder are exact.      *)
(* Scores are held in tenths (a score of 0.3 is 3).                        *)
(*                                                                         *)
(* The components that drive the pipeline, VirtualTryOn3D (src/App.jsx)    *)
(* and PoseDetector, are modelled by their React state, the promises they  *)
(* wait on and the animation-frame callbacks they have scheduled.          *)
(***************************************************************************)
EXTENDS Integers, Sequences, FiniteSets, Bags, TLC

VARIABLES
    keypoints,          \* the frame: the sequence of keypoints of one pose
    stage,              \* where the frame is in its processing
    pixelMeasurements,  \* what extractPixelMeasurements returned
    mesh,               \* what buildBodyMesh returned
    bodyOrientation,    \* BodyMesh3D.bodyOrientation
    clothingType,       \* the garment category handed to renderClothing
    meshGrids,          \* the garment grids one renderClothing made, in order
    drawLog,            \* the drawImage calls of one renderClothing, in order
    escaped,            \* the exception that left renderClothing, or "none"
    saveDepth,          \* ctx.save() calls not yet matched by ctx.restore()
    pxArgs,             \* the arguments of the pxToCm calls
    pxOut,              \* the values the pxToCm calls returned
    window,             \* the StabilityWindow: the samples held, oldest first
    stability,          \* what the stability filter reported on the last push
    poseQuality,        \* the tag the quality classifier gave the frame
    component,          \* the mounted component: VirtualTryOn3D or PoseDetector
    pending,            \* the initialisation promises not yet settled
    isReady,            \* state isReady
    detector,           \* state detector
    srcObject,          \* whether videoRef.current.srcObject holds the stream
    readyState,         \* videoRef.current.readyState
    frontClothing,      \* App state frontClothing, handed down as a prop
    backClothing,       \* App state backClothing, handed down as a prop
    processedFront,     \* state processedFront
    processedBack,      \* state processedBack
    isProcessing,       \* state isProcessing
    loads,              \* the garment images whose loading has not finished
    uploads,            \* how many garment images have been selected so far
    loops,              \* the bag of callbacks handed to requestAnimationFrame
    lastCall            \* what the latest call of the loop function did

vars == <<keypoints, stage, pixelMeasurements, mesh, bodyOrientation,
          clothingType, meshGrids, drawLog, escaped, saveDepth, pxArgs, pxOut,
          window, stability, poseQuality,
          component, pending, isReady, detector, srcObject, readyState,
          frontClothing, backClothing, processedFront, processedBack,
          isProcessing, loads, uploads, loops, lastCall>>

\* The state of the pipeline that one frame passes through.
frameVars == <<keypoints, stage, pixelMeasurements, mesh, bodyOrientation,
               clothingType, meshGrids, drawLog, escaped, saveDepth, pxArgs,
               pxOut, window, stability, poseQuality>>

\* The state of the mounted component and of the App that holds it.
componentVars == <<component, pending, isReady, detector, srcObject,
                   readyState, frontClothing, backClothing, processedFront,
                   processedBack, isProcessing, loads, uploads, loops,
                   lastCall>>

----------------------------------------------------------------------------
(* Values *)

Unit == 100

Px(n) == n * Unit

NULL == [null |-> TRUE]

\* A garment image that is null: no data URL, no processed image.
NoImage == 0

\* A call record of a loop function that has not been called yet.
NotCalled ==
    [called |-> FALSE, detector |-> "null", front |-> NoImage,
     back |-> NoImage, estimated |-> FALSE, video |-> 0, threw |-> FALSE, garment |-> NoImage,
     requested |-> 0]

\* The component c after its first render and its mount effect: every
\* useState at its initial value, initTensorFlow() called and waiting.
Mounted(c) ==
    /\ component = c
    /\ pending = {"tensorflow"}
    /\ isReady = FALSE
    /\ detector = "null"
    /\ srcObject = FALSE
    /\ readyState = 0
    /\ frontClothing = NoImage
    /\ backClothing = NoImage
    /\ processedFront = NoImage
    /\ processedBack = NoImage
    /\ isProcessing = FALSE
    /\ loads = {}
    /\ uploads = 0
    /\ loops = EmptyBag
    /\ lastCall = NotCalled

\* A keypoints argument that is null or undefined.
NoFrame == << NULL >>

Abs(n) == IF n < 0 THEN -n ELSE n

Max(S) == CHOOSE m \in S : \A n \in S : n <= m

\* The order in which the pose model lists its joints.
JointOrder ==
    << "nose", "left_shoulder", "right_shoulder", "left_elbow", "right_elbow",
       "left_wrist", "right_wrist", "left_hip", "right_hip", "left_knee",
       "right_knee", "left_ankle", "right_ankle" >>

JointNames == {JointOrder[i] : i \in 1..Len(JointOrder)}

JointIndex(name) == CHOOSE i \in 1..Len(JointOrder) : JointOrder[i] = name

\* The place in JointOrder of the last keypoint of a frame, 0 for none.
LastJointIndex(kps) ==
    IF kps = << >> THEN 0 ELSE JointIndex(kps[Len(kps)].name)

Keypoint(name, x, y, score) == [name |-> name, x |-> Px(x), y |-> Px(y), score |-> score]

Point(x, y) == [x |-> x, y |-> y]

\* A quotient num/den that is not carried out; den = 0 is an infinite or
\* undefined double.
Ratio(num, den) == [num |-> num, den |-> den]

----------------------------------------------------------------------------
(* BodyMesh3D *)

MinScore == 3

UserHeight == 170

\* The filter letting a score of exactly 0.3 through (>= for >).
VisibleKeypointsAtThreshold(kps) ==
    [n \in JointNames |->
        LET at == {i \in 1..Len(kps) : kps[i].name = n /\ kps[i].score >= MinScore}
        IN  IF at = {} THEN NULL ELSE kps[Max(at)]]

\* kp = {}; keypoints.forEach(k => { if (k.score > 0.3) kp[k.name] = k; })
\* A later keypoint of the same name overwrites an earlier one.
VisibleKeypoints(kps) ==
    [n \in JointNames |->
        LET at == {i \in 1..Len(kps) : kps[i].name = n /\ kps[i].score > MinScore}
        IN  IF at = {} THEN NULL ELSE kps[Max(at)]]

\* Math.abs(noseX - shoulderMidX) / Math.abs(rs.x - ls.x) > 0.4, with
\* shoulderMidX = (ls.x + rs.x) / 2.  Multiplied out by 10 * |rs.x - ls.x|:
\* a zero shoulder span gives Infinity (> 0.4) for a nose off the middle and
\* NaN (not > 0.4) for a nose on it, which is what the product form says too.
OffsetRatioAboveSide(kp) ==
    5 * Abs(2 * kp["nose"].x - kp["left_shoulder"].x - kp["right_shoulder"].x)
        > 4 * Abs(kp["right_shoulder"].x - kp["left_shoulder"].x)

\* shoulderWidth <= hipWidth * 0.8
ShouldersNotWiderThanHips(kp) ==
    5 * Abs(kp["right_shoulder"].x - kp["left_shoulder"].x)
        <= 4 * Abs(kp["right_hip"].x - kp["left_hip"].x)

\* shoulderWidth < hipWidth * 0.8
ShouldersNarrowerThanHips(kp) ==
    5 * Abs(kp["right_shoulder"].x - kp["left_shoulder"].x)
        < 4 * Abs(kp["right_hip"].x - kp["left_hip"].x)

\* detectOrientation with the hip test tried before the nose test.
detectOrientationBackFirst(kps) ==
    LET kp == VisibleKeypoints(kps)
    IN  IF kp["nose"] = NULL \/ kp["left_shoulder"] = NULL \/ kp["right_shoulder"] = NULL
        THEN "front"
        ELSE IF kp["left_hip"] # NULL /\ kp["right_hip"] # NULL
                /\ ShouldersNarrowerThanHips(kp)
        THEN "back"
        ELSE IF OffsetRatioAboveSide(kp)
        THEN "side"
        ELSE "front"

detectOrientation(kps) ==
    LET kp == VisibleKeypoints(kps)
    IN  IF kp["nose"] = NULL \/ kp["left_shoulder"] = NULL \/ kp["right_shoulder"] = NULL
        THEN "front"
        ELSE IF OffsetRatioAboveSide(kp)
        THEN "side"
        ELSE IF kp["left_hip"] # NULL /\ kp["right_hip"] # NULL
                /\ ShouldersNarrowerThanHips(kp)
        THEN "back"
        ELSE "front"

\* estimateBodyHeight falling back on the frame height, 480, instead of 400.
estimateBodyHeightFrameFallback(kp) ==
    IF kp["nose"] # NULL /\ kp["left_ankle"] # NULL /\ kp["right_ankle"] # NULL
    THEN Abs((kp["left_ankle"].y + kp["right_ankle"].y) \div 2 - kp["nose"].y)
    ELSE Px(480)

estimateBodyHeight(kp) ==
    IF kp["nose"] # NULL /\ kp["left_ankle"] # NULL /\ kp["right_ankle"] # NULL
    THEN Abs((kp["left_ankle"].y + kp["right_ankle"].y) \div 2 - kp["nose"].y)
    ELSE Px(400)

interpolateChestPoints(kp, shoulderWidth) ==
    IF kp["left_shoulder"] = NULL \/ kp["right_shoulder"] = NULL
    THEN NULL
    ELSE LET chestY == kp["left_shoulder"].y + (shoulderWidth * 2) \div 5
             chestExpansion == (shoulderWidth * 3) \div 20
         IN  [left   |-> Point(kp["left_shoulder"].x - chestExpansion, chestY),
              right  |-> Point(kp["right_shoulder"].x + chestExpansion, chestY),
              center |-> Point((kp["left_shoulder"].x + kp["right_shoulder"].x) \div 2,
                               chestY)]

\* buildArmMesh placing a missing elbow 30 pixels to the left on both sides.
buildArmMeshSameOffset(kp, side) ==
    LET shoulder == kp[side \o "_shoulder"]
        elbow    == kp[side \o "_elbow"]
        wrist    == kp[side \o "_wrist"]
    IN  IF shoulder = NULL
        THEN NULL
        ELSE [shoulder |-> shoulder,
              elbow    |-> IF elbow # NULL
                           THEN elbow
                           ELSE Point(shoulder.x - Px(30), shoulder.y + Px(60)),
              wrist    |-> IF wrist # NULL
                           THEN wrist
                           ELSE IF elbow # NULL
                           THEN Point(elbow.x, elbow.y + Px(60))
                           ELSE Point(shoulder.x, shoulder.y + Px(120))]

buildArmMesh(kp, side) ==
    LET shoulder == kp[side \o "_shoulder"]
        elbow    == kp[side \o "_elbow"]
        wrist    == kp[side \o "_wrist"]
    IN  IF shoulder = NULL
        THEN NULL
        ELSE [shoulder |-> shoulder,
              elbow    |-> IF elbow # NULL
                           THEN elbow
                           ELSE Point(shoulder.x + (IF side = "left" THEN -Px(30) ELSE Px(30)),
                                      shoulder.y + Px(60)),
              wrist    |-> IF wrist # NULL
                           THEN wrist
                           ELSE IF elbow # NULL
                           THEN Point(elbow.x, elbow.y + Px(60))
                           ELSE Point(shoulder.x, shoulder.y + Px(120))]

\* buildLegMesh that leaves a missing ankle out instead of placing one.
buildLegMeshBareAnkle(kp, side) ==
    LET hip   == kp[side \o "_hip"]
        knee  == kp[side \o "_knee"]
        ankle == kp[side \o "_ankle"]
    IN  IF hip = NULL
        THEN NULL
        ELSE [hip   |-> hip,
              knee  |-> IF knee # NULL THEN knee ELSE Point(hip.x, hip.y + Px(80)),
              ankle |-> ankle]

buildLegMesh(kp, side) ==
    LET hip   == kp[side \o "_hip"]
        knee  == kp[side \o "_knee"]
        ankle == kp[side \o "_ankle"]
    IN  IF hip = NULL
        THEN NULL
        ELSE [hip   |-> hip,
              knee  |-> IF knee # NULL THEN knee ELSE Point(hip.x, hip.y + Px(80)),
              ankle |-> IF ankle # NULL
                        THEN ankle
                        ELSE IF knee # NULL
                        THEN Point(knee.x, knee.y + Px(80))
                        ELSE Point(hip.x, hip.y + Px(160))]

ContourOrder ==
    << "left_shoulder", "left_elbow", "left_hip", "left_knee",
       "right_knee", "right_hip", "right_elbow", "right_shoulder" >>

RECURSIVE ContourFrom(_, _)
ContourFrom(kp, i) ==
    IF i > Len(ContourOrder)
    THEN << >>
    ELSE (IF kp[ContourOrder[i]] # NULL THEN << kp[ContourOrder[i]] >> ELSE << >>)
         \o ContourFrom(kp, i + 1)

buildBodyContour(kp) == ContourFrom(kp, 1)

\* The mesh with the waist points at the x of the shoulders.
BodyMeshOfWaistUnderShoulder(kps, kp) ==
    LET ls == kp["left_shoulder"]
        rs == kp["right_shoulder"]
        lh == kp["left_hip"]
        rh == kp["right_hip"]
        shoulderWidth == Abs(rs.x - ls.x)
        bodyHeightPx  == estimateBodyHeight(kp)
        perCm(w)      == Ratio(w * bodyHeightPx, UserHeight * Unit * Unit)
    IN  [shoulders |-> [left   |-> ls,
                        right  |-> rs,
                        center |-> Point((ls.x + rs.x) \div 2, (ls.y + rs.y) \div 2)],
         chest |-> interpolateChestPoints(kp, shoulderWidth),
         waist |-> IF lh # NULL /\ rh # NULL
                   THEN [left   |-> Point(ls.x, (lh.y + ls.y) \div 2),
                         right  |-> Point(rs.x, (rh.y + rs.y) \div 2),
                         center |-> Point((lh.x + rh.x) \div 2,
                                          (lh.y + rh.y + ls.y + rs.y) \div 4)]
                   ELSE NULL,
         hips  |-> IF lh # NULL /\ rh # NULL
                   THEN [left   |-> lh,
                         right  |-> rh,
                         center |-> Point((lh.x + rh.x) \div 2, (lh.y + rh.y) \div 2)]
                   ELSE NULL,
         arms  |-> [left |-> buildArmMesh(kp, "left"), right |-> buildArmMesh(kp, "right")],
         legs  |-> [left |-> buildLegMesh(kp, "left"), right |-> buildLegMesh(kp, "right")],
         contour |-> buildBodyContour(kp),
         measurements |-> [shoulderWidth |-> perCm(shoulderWidth),
                           chest         |-> perCm((shoulderWidth * 5) \div 4),
                           waist         |-> perCm((shoulderWidth * 9) \div 10),
                           hip           |-> perCm((shoulderWidth * 23) \div 20),
                           pixelsPerCm   |-> Ratio(UserHeight * Unit, bodyHeightPx)],
         orientation |-> detectOrientation(kps),
         keypoints   |-> kp]

\* The mesh record of buildBodyMesh, for a frame with both shoulders in kp.
\* measurements: x / pixelsPerCm with pixelsPerCm = height / bodyHeightPx is
\* x * bodyHeightPx / height, kept as a quotient of fixed-point numbers.
BodyMeshOf(kps, kp) ==
    LET ls == kp["left_shoulder"]
        rs == kp["right_shoulder"]
        lh == kp["left_hip"]
        rh == kp["right_hip"]
        shoulderWidth == Abs(rs.x - ls.x)
        bodyHeightPx  == estimateBodyHeight(kp)
        perCm(w)      == Ratio(w * bodyHeightPx, UserHeight * Unit * Unit)
    IN  [shoulders |-> [left   |-> ls,
                        right  |-> rs,
                        center |-> Point((ls.x + rs.x) \div 2, (ls.y + rs.y) \div 2)],
         chest |-> interpolateChestPoints(kp, shoulderWidth),
         waist |-> IF lh # NULL /\ rh # NULL
                   THEN [left   |-> Point(lh.x, (lh.y + ls.y) \div 2),
                         right  |-> Point(rh.x, (rh.y + rs.y) \div 2),
                         center |-> Point((lh.x + rh.x) \div 2,
                                          (lh.y + rh.y + ls.y + rs.y) \div 4)]
                   ELSE NULL,
         hips  |-> IF lh # NULL /\ rh # NULL
                   THEN [left   |-> lh,
                         right  |-> rh,
                         center |-> Point((lh.x + rh.x) \div 2, (lh.y + rh.y) \div 2)]
                   ELSE NULL,
         arms  |-> [left |-> buildArmMesh(kp, "left"), right |-> buildArmMesh(kp, "right")],
         legs  |-> [left |-> buildLegMesh(kp, "left"), right |-> buildLegMesh(kp, "right")],
         contour |-> buildBodyContour(kp),
         measurements |-> [shoulderWidth |-> perCm(shoulderWidth),
                           chest         |-> perCm((shoulderWidth * 5) \div 4),
                           waist         |-> perCm((shoulderWidth * 9) \div 10),
                           hip           |-> perCm((shoulderWidth * 23) \div 20),
                           pixelsPerCm   |-> Ratio(UserHeight * Unit, bodyHeightPx)],
         orientation |-> detectOrientation(kps),
         keypoints   |-> kp]

\* if (!kp.left_shoulder || !kp.right_shoulder) return null;
MeshAbsent(kp) == kp["left_shoulder"] = NULL \/ kp["right_shoulder"] = NULL

buildBodyMesh(kps) ==
    LET kp == VisibleKeypoints(kps)
    IN  IF MeshAbsent(kp) THEN NULL ELSE BodyMeshOf(kps, kp)

----------------------------------------------------------------------------
(* Frames *)

\* How many keypoints of a frame repeat the name of an earlier one.
Duplicates(kps) == Len(kps) - Cardinality({kps[i].name : i \in 1..Len(kps)})

\* The pose model hands over one more keypoint of the frame.  Joints come
\* in the model's order; a joint may be left out, and may come again while
\* the frame repeats fewer than maxDuplicates names.
Detect(k, maxDuplicates) ==
    /\ stage = "detect"
    /\ keypoints # NoFrame
    /\ \/ LastJointIndex(keypoints) < JointIndex(k.name)
       \/ /\ LastJointIndex(keypoints) = JointIndex(k.name)
          /\ Duplicates(keypoints) < maxDuplicates
    /\ keypoints' = Append(keypoints, k)
    /\ UNCHANGED <<stage, pixelMeasurements, mesh, bodyOrientation, clothingType,
                   meshGrids, drawLog, escaped, saveDepth, pxArgs, pxOut, window, stability, poseQuality, componentVars>>

\* mesh = bodyMeshBuilderRef.current?.buildBodyMesh(pose.keypoints)
\* this.bodyOrientation is assigned only past the shoulder check.
BuildBodyMesh ==
    /\ stage = "detect"
    /\ mesh' = buildBodyMesh(keypoints)
    /\ bodyOrientation' = IF MeshAbsent(VisibleKeypoints(keypoints))
                          THEN bodyOrientation
                          ELSE detectOrientation(keypoints)
    /\ stage' = "meshed"
    /\ UNCHANGED <<keypoints, pixelMeasurements, clothingType, meshGrids, drawLog, escaped,
                   saveDepth, pxArgs, pxOut, window, stability, poseQuality, componentVars>>

MeshKeypoints ==
    {Keypoint("nose", x, 100, 9) : x \in {250, 210, 200}}
    \cup {Keypoint("nose", 200, 100, 3)}
    \cup {Keypoint("left_shoulder", 200, 150, s) : s \in {3, 9}}
    \cup {Keypoint("right_shoulder", x, 150, 9) : x \in {300, 240, 200}}
    \cup {Keypoint("left_elbow", 180, 220, 9), Keypoint("right_elbow", 320, 220, 9),
          Keypoint("left_wrist", 170, 290, 9)}
    \cup {Keypoint("left_hip", 210, 300, s) : s \in {3, 9}}
    \cup {Keypoint("right_hip", x, 300, 9) : x \in {290, 260}}
    \cup {Keypoint("left_knee", 212, 380, 9), Keypoint("right_knee", 288, 380, 9),
          Keypoint("left_ankle", 214, 460, 9), Keypoint("right_ankle", 286, 460, 9)}

InitFrame ==
    /\ keypoints = << >>
    /\ stage = "detect"
    /\ pixelMeasurements = NULL
    /\ mesh = NULL
    /\ bodyOrientation = "front"
    /\ clothingType = "none"
    /\ meshGrids = << >>
    /\ drawLog = << >>
    /\ escaped = "none"
    /\ saveDepth = 0
    /\ pxArgs = NULL
    /\ pxOut = NULL
    /\ window = << >>
    /\ stability = "collecting"
    /\ poseQuality = "none"
    /\ Mounted("VirtualTryOn3D")

\* Frames for the chest points: the right shoulder right of, left of and
\* straight above or below the left one, the left shoulder at two heights.
ChestKeypoints ==
    {Keypoint("nose", 250, 100, 9),
     Keypoint("left_hip", 210, 300, 9), Keypoint("right_hip", 290, 300, 9)}
    \cup {Keypoint("left_shoulder", 200, y, 9) : y \in {150, 170}}
    \cup {Keypoint("right_shoulder", x, 150, 9) : x \in {300, 240, 200, 160, 100}}

DetectChest == \E k \in ChestKeypoints : Detect(k, 0)

NextChest == DetectChest \/ BuildBodyMesh

SpecChest == InitFrame /\ [][NextChest]_vars

\* The pose model lists every joint at most once.
DetectMesh == \E k \in MeshKeypoints : Detect(k, 0)

NextMesh == DetectMesh \/ BuildBodyMesh

SpecMesh == InitFrame /\ [][NextMesh]_vars

----------------------------------------------------------------------------
(* extractPixelMeasurements (utils/measurements.js) *)

\* The largest r with r * r <= n, by bisection between lo and hi.
RECURSIVE SqrtBetween(_, _, _)
SqrtBetween(n, lo, hi) ==
    IF lo >= hi
    THEN lo
    ELSE LET mid == (lo + hi + 1) \div 2
         IN  IF mid * mid <= n
             THEN SqrtBetween(n, mid, hi)
             ELSE SqrtBetween(n, lo, mid - 1)

\* Math.hypot(dx, dy) on fixed-point numbers, cut to the fixed-point step.
Hypot(dx, dy) == SqrtBetween(dx * dx + dy * dy, 0, Abs(dx) + Abs(dy))

\* k.name === name || k.part === name
HasName(k, name) ==
    \/ k.name = name
    \/ ("part" \in DOMAIN k /\ k.part = name)

\* getKeypoint passing over keypoints with a score of 0.3 or less.
getKeypointVisible(kps, name) ==
    LET at == {i \in 1..Len(kps) : HasName(kps[i], name) /\ kps[i].score > MinScore}
    IN  IF at = {} THEN NULL ELSE kps[CHOOSE i \in at : \A j \in at : i <= j]

\* getKeypoint taking the last match instead of the first.
getKeypointLast(kps, name) ==
    LET at == {i \in 1..Len(kps) : HasName(kps[i], name)}
    IN  IF at = {} THEN NULL ELSE kps[CHOOSE i \in at : \A j \in at : i >= j]

\* getKeypoint = (name) => keypoints.find(...): the first match, or NULL.
getKeypoint(kps, name) ==
    LET at == {i \in 1..Len(kps) : HasName(kps[i], name)}
    IN  IF at = {} THEN NULL ELSE kps[CHOOSE i \in at : \A j \in at : i <= j]

\* keypoints.reduce((maxY, k) => Math.max(maxY, k.y), start)
RECURSIVE MaxYFrom(_, _, _)
MaxYFrom(kps, i, maxY) ==
    IF i > Len(kps)
    THEN maxY
    ELSE MaxYFrom(kps, i + 1, IF kps[i].y > maxY THEN kps[i].y ELSE maxY)

\* The returned object without its chestPx.
PixelMeasurementsNoChest(kps) ==
    LET leftShoulder  == getKeypoint(kps, "left_shoulder")
        rightShoulder == getKeypoint(kps, "right_shoulder")
        leftHip       == getKeypoint(kps, "left_hip")
        rightHip      == getKeypoint(kps, "right_hip")
        nose          == getKeypoint(kps, "nose")
    IN  [shoulderWidthPx |-> Hypot(rightShoulder.x - leftShoulder.x,
                                   rightShoulder.y - leftShoulder.y),
         torsoHeightPx   |-> (leftHip.y + rightHip.y) \div 2
                                - (leftShoulder.y + rightShoulder.y) \div 2,
         fullHeightPx    |-> MaxYFrom(kps, 1, nose.y) - nose.y]

\* The object returned for a frame that has the five joints.
PixelMeasurementsOf(kps) ==
    LET leftShoulder  == getKeypoint(kps, "left_shoulder")
        rightShoulder == getKeypoint(kps, "right_shoulder")
        leftHip       == getKeypoint(kps, "left_hip")
        rightHip      == getKeypoint(kps, "right_hip")
        nose          == getKeypoint(kps, "nose")
        shoulderWidthPx == Hypot(rightShoulder.x - leftShoulder.x,
                                 rightShoulder.y - leftShoulder.y)
    IN  [shoulderWidthPx |-> shoulderWidthPx,
         torsoHeightPx   |-> (leftHip.y + rightHip.y) \div 2
                                - (leftShoulder.y + rightShoulder.y) \div 2,
         fullHeightPx    |-> MaxYFrom(kps, 1, nose.y) - nose.y,
         chestPx         |-> (shoulderWidthPx * 13) \div 10]

RequiredForMeasurement ==
    {"left_shoulder", "right_shoulder", "left_hip", "right_hip", "nose"}

extractPixelMeasurements(kps) ==
    IF kps = NoFrame
    THEN NULL
    ELSE IF Len(kps) = 0
    THEN NULL
    ELSE IF \E n \in RequiredForMeasurement : getKeypoint(kps, n) = NULL
    THEN NULL
    ELSE PixelMeasurementsOf(kps)

ExtractPixelMeasurements ==
    /\ stage = "detect"
    /\ pixelMeasurements' = extractPixelMeasurements(keypoints)
    /\ stage' = "measured"
    /\ UNCHANGED <<keypoints, mesh, bodyOrientation, clothingType, meshGrids, drawLog,
                   escaped, saveDepth, pxArgs, pxOut, window, stability, poseQuality, componentVars>>

MaxDuplicates == 1

MeasureKeypoints ==
    {Keypoint("nose", 250, y, s) : y \in {100, 320}, s \in {3, 9}}
    \cup {Keypoint("left_shoulder", 200, y, 9) : y \in {150, 120}}
    \cup {Keypoint("right_shoulder", 300, 150, s) : s \in {3, 9}}
    \cup {Keypoint("left_hip", 210, 300, 9), Keypoint("right_hip", 290, 300, 9),
          Keypoint("left_ankle", 214, 460, 9)}

DetectMeasure == \E k \in MeasureKeypoints : Detect(k, MaxDuplicates)

\* The caller may hand over no frame at all.
InitMeasure ==
    /\ keypoints \in {NoFrame, << >>}
    /\ stage = "detect"
    /\ pixelMeasurements = NULL
    /\ mesh = NULL
    /\ bodyOrientation = "front"
    /\ clothingType = "none"
    /\ meshGrids = << >>
    /\ drawLog = << >>
    /\ escaped = "none"
    /\ saveDepth = 0
    /\ pxArgs = NULL
    /\ pxOut = NULL
    /\ window = << >>
    /\ stability = "collecting"
    /\ poseQuality = "none"
    /\ Mounted("VirtualTryOn3D")

NextMeasure == DetectMeasure \/ ExtractPixelMeasurements

SpecMeasure == InitMeasure /\ [][NextMeasure]_vars

----------------------------------------------------------------------------
(* Clothing3DRenderer *)

\* Texture coordinates are held in steps of 1/UVUnit: every u and v the
\* generators make (halves, thirds, quarters, fifths) is a whole number of
\* them.
UVUnit == 60

\* a * (1 - num/den) + b * (num/den)
Lerp(a, b, num, den) == (a * (den - num) + b * num) \div den

\* a || b on numbers: 0 counts as missing.
OrElse(a, b) == IF a # 0 THEN a ELSE b

\* obj?.[side].[coord] || fallback
CoordOr(obj, side, coord, fallback) ==
    IF obj = NULL THEN fallback ELSE OrElse(obj[side][coord], fallback)

\* Math.sin(s * Math.PI) in thousandths for s = num/den, s one of
\* 0, 1/3, 1/2, 2/3, 1 (the columns of a 3- or 4-column grid).
SinPiMilli(num, den) ==
    LET sixths == (6 * num) \div den
    IN  IF sixths = 3 THEN 1000
        ELSE IF sixths = 2 \/ sixths = 4 THEN 866
        ELSE 0

\* Math.sin(s * Math.PI) * px pixels
Bulge(num, den, px) == (SinPiMilli(num, den) * Px(px)) \div 1000

\* The loops "for row < rows - 1 ... for col < cols" stop one row early.
GridCellsShort(rows, cols) ==
    [i \in 1..((rows - 1) * cols) |-> [row |-> (i - 1) \div cols, col |-> (i - 1) % cols]]

\* for (row = 0; row < rows; row++) for (col = 0; col < cols; col++):
\* the cells in the order the loops visit them.
GridCells(rows, cols) ==
    [i \in 1..(rows * cols) |-> [row |-> (i - 1) \div cols, col |-> (i - 1) % cols]]

UVOf(row, col, rows, cols) ==
    [u |-> (UVUnit * col) \div (cols - 1), v |-> (UVUnit * row) \div (rows - 1)]

TorsoRows == 5

TorsoCols == 3

\* One point of the torso grid.  t = row / (rows - 1) is compared with 0.33
\* and 0.66 in hundredths; localT is kept as the quotient num/den.
TorsoPoint(m, row, col) ==
    LET shoulders == m.shoulders
        chest == m.chest
        waist == m.waist
        hips  == m.hips
        den   == TorsoRows - 1
        chestLeftX  == CoordOr(chest, "left", "x", shoulders.left.x)
        chestRightX == CoordOr(chest, "right", "x", shoulders.right.x)
        chestY      == CoordOr(chest, "center", "y", shoulders.center.y + Px(30))
        waistLeftX  == CoordOr(waist, "left", "x", shoulders.left.x)
        waistRightX == CoordOr(waist, "right", "x", shoulders.right.x)
        waistY      == CoordOr(waist, "center", "y", hips.center.y - Px(30))
        band == IF 100 * row < 33 * den THEN 1
                ELSE IF 100 * row < 66 * den THEN 2 ELSE 3
        num  == IF band = 1 THEN 100 * row
                ELSE IF band = 2 THEN 100 * row - 33 * den
                ELSE 100 * row - 66 * den
        d    == IF band = 3 THEN 34 * den ELSE 33 * den
        leftX  == IF band = 1 THEN Lerp(shoulders.left.x, chestLeftX, num, d)
                  ELSE IF band = 2 THEN Lerp(chestLeftX, waistLeftX, num, d)
                  ELSE Lerp(waistLeftX, hips.left.x, num, d)
        rightX == IF band = 1 THEN Lerp(shoulders.right.x, chestRightX, num, d)
                  ELSE IF band = 2 THEN Lerp(chestRightX, waistRightX, num, d)
                  ELSE Lerp(waistRightX, hips.right.x, num, d)
        y      == IF band = 1 THEN Lerp(shoulders.center.y, chestY, num, d)
                  ELSE IF band = 2 THEN Lerp(chestY, waistY, num, d)
                  ELSE Lerp(waistY, hips.center.y, num, d)
    IN  Point(Lerp(leftX, rightX, col, TorsoCols - 1) + Bulge(col, TorsoCols - 1, 8), y)

EmptyGrid == [points |-> << >>, uvs |-> << >>]

createClothMeshGrid(m, section) ==
    IF section = "torso" /\ m.shoulders # NULL /\ m.hips # NULL
    THEN LET cells == GridCells(TorsoRows, TorsoCols)
         IN  [points |-> [i \in DOMAIN cells |-> TorsoPoint(m, cells[i].row, cells[i].col)],
              uvs    |-> [i \in DOMAIN cells |->
                             UVOf(cells[i].row, cells[i].col, TorsoRows, TorsoCols)]]
    ELSE EmptyGrid

DressRows == 6

DressCols == 4

createDressMeshGrid(m, topWidth, bottomWidth, height) ==
    LET centerX == m.shoulders.center.x
        topY    == m.shoulders.center.y
        cells   == GridCells(DressRows, DressCols)
        point(row, col) ==
            LET currentWidth == Lerp(topWidth, bottomWidth, row, DressRows - 1)
                y       == topY + (height * row) \div (DressRows - 1)
                xOffset == ((2 * col - (DressCols - 1)) * currentWidth)
                              \div (2 * (DressCols - 1))
                curveFactor == (Bulge(col, DressCols - 1, 12) * row) \div (DressRows - 1)
            IN  Point(centerX + xOffset + curveFactor, y)
    IN  [points |-> [i \in DOMAIN cells |-> point(cells[i].row, cells[i].col)],
         uvs    |-> [i \in DOMAIN cells |->
                        UVOf(cells[i].row, cells[i].col, DressRows, DressCols)]]

LegRows == 5

LegCols == 3

\* createPantLegMesh giving both legs the left half of the texture.
createPantLegMeshLeftHalf(leg, hipWidth, side) ==
    LET legWidth == (hipWidth * 27) \div 50
        hipY   == leg.hip.y
        kneeY  == IF leg.knee = NULL
                  THEN (leg.hip.y + leg.ankle.y) \div 2
                  ELSE OrElse(leg.knee.y, (leg.hip.y + leg.ankle.y) \div 2)
        ankleY == leg.ankle.y
        den    == LegRows - 1
        cells  == GridCells(LegRows, LegCols)
        point(row, col) ==
            LET upper == 2 * row < den
                num   == IF upper THEN 2 * row ELSE 2 * row - den
                y     == IF upper THEN Lerp(hipY, kneeY, num, den)
                         ELSE Lerp(kneeY, ankleY, num, den)
                currentWidth ==
                    IF upper
                    THEN (legWidth * (100 * den - 15 * num)) \div (100 * den)
                    ELSE (((legWidth * 85) \div 100) * (100 * den - 20 * num))
                            \div (100 * den)
                xOffset == ((2 * col - (LegCols - 1)) * currentWidth)
                              \div (2 * (LegCols - 1))
            IN  Point(leg.hip.x + xOffset + Bulge(col, LegCols - 1, 6), y)
        uv(row, col) ==
            LET s == UVOf(row, col, LegRows, LegCols)
            IN  [u |-> s.u \div 2,
                 v |-> s.v]
    IN  [points |-> [i \in DOMAIN cells |-> point(cells[i].row, cells[i].col)],
         uvs    |-> [i \in DOMAIN cells |-> uv(cells[i].row, cells[i].col)]]

createPantLegMesh(leg, hipWidth, side) ==
    LET legWidth == (hipWidth * 27) \div 50
        hipY   == leg.hip.y
        kneeY  == IF leg.knee = NULL
                  THEN (leg.hip.y + leg.ankle.y) \div 2
                  ELSE OrElse(leg.knee.y, (leg.hip.y + leg.ankle.y) \div 2)
        ankleY == leg.ankle.y
        den    == LegRows - 1
        cells  == GridCells(LegRows, LegCols)
        point(row, col) ==
            LET upper == 2 * row < den
                num   == IF upper THEN 2 * row ELSE 2 * row - den
                y     == IF upper THEN Lerp(hipY, kneeY, num, den)
                         ELSE Lerp(kneeY, ankleY, num, den)
                currentWidth ==
                    IF upper
                    THEN (legWidth * (100 * den - 15 * num)) \div (100 * den)
                    ELSE (((legWidth * 85) \div 100) * (100 * den - 20 * num))
                            \div (100 * den)
                xOffset == ((2 * col - (LegCols - 1)) * currentWidth)
                              \div (2 * (LegCols - 1))
            IN  Point(leg.hip.x + xOffset + Bulge(col, LegCols - 1, 6), y)
        uv(row, col) ==
            LET s == UVOf(row, col, LegRows, LegCols)
            IN  [u |-> IF side = "left" THEN s.u \div 2 ELSE UVUnit \div 2 + s.u \div 2,
                 v |-> s.v]
    IN  [points |-> [i \in DOMAIN cells |-> point(cells[i].row, cells[i].col)],
         uvs    |-> [i \in DOMAIN cells |-> uv(cells[i].row, cells[i].col)]]

\* The drawImage call of drawTexturedQuad: the quad, its source rectangle in
\* texture coordinates and the centre and size of its destination.  (The
\* rotation angle, an arc tangent, is left out.)
drawTexturedQuad(call, idx, p1, p2, p3, p4, uv1, uv2, uv3, uv4) ==
    [op      |-> "quad",
     call    |-> call,
     idx     |-> idx,
     p       |-> << p1, p2, p3, p4 >>,
     uv      |-> << uv1, uv2, uv3, uv4 >>,
     source  |-> [u |-> uv1.u, v |-> uv1.v, w |-> uv2.u - uv1.u, h |-> uv4.v - uv1.v],
     centerX |-> (p1.x + p2.x + p3.x + p4.x) \div 4,
     centerY |-> (p1.y + p2.y + p3.y + p4.y) \div 4,
     width   |-> IF Abs(p2.x - p1.x) > Abs(p3.x - p4.x)
                 THEN Abs(p2.x - p1.x) ELSE Abs(p3.x - p4.x),
     height  |-> Abs(p3.y - p1.y),
     thrown  |-> FALSE]

WarpCols == 3

\* The drawTexturedQuad calls of drawWarpedMesh, in loop order; call numbers
\* the drawWarpedMesh call within the render.  idx counts from 0 as in the
\* source, sequences from 1.
drawWarpedMesh(grid, call) ==
    IF Len(grid.points) < 4
    THEN << >>
    ELSE LET cols == WarpCols
             rows == Len(grid.points) \div cols
         IN  [k \in 1..((rows - 1) * (cols - 1)) |->
                LET row == (k - 1) \div (cols - 1)
                    col == (k - 1) % (cols - 1)
                    idx == row * cols + col
                IN  drawTexturedQuad(call, idx,
                        grid.points[idx + 1], grid.points[idx + 2],
                        grid.points[idx + cols + 2], grid.points[idx + cols + 1],
                        grid.uvs[idx + 1], grid.uvs[idx + 2],
                        grid.uvs[idx + cols + 2], grid.uvs[idx + cols + 1])]

\* The two drawImage calls of renderSleeve3D (upper arm, forearm), each made
\* by drawCylindricalSleeve inside two ctx.save().
renderSleeve3D(arm, side, shoulderWidth) ==
    IF arm.shoulder = NULL \/ arm.elbow = NULL \/ arm.wrist = NULL
    THEN << >>
    ELSE LET sleeveWidth == (shoulderWidth * 32) \div 100
         IN  << [op |-> "sleeve", side |-> side, part |-> "upper",
                 at |-> Point(arm.shoulder.x, arm.shoulder.y),
                 length |-> (Hypot(arm.elbow.x - arm.shoulder.x,
                                   arm.elbow.y - arm.shoulder.y) * 92) \div 100,
                 width |-> sleeveWidth,
                 thrown |-> FALSE],
                [op |-> "sleeve", side |-> side, part |-> "fore",
                 at |-> Point(arm.elbow.x, arm.elbow.y),
                 length |-> (Hypot(arm.wrist.x - arm.elbow.x,
                                   arm.wrist.y - arm.elbow.y) * 88) \div 100,
                 width |-> (sleeveWidth * 75) \div 100,
                 thrown |-> FALSE] >>

SleeveOf(arm, side, shoulderWidth) ==
    IF arm # NULL /\ arm.elbow # NULL /\ arm.wrist # NULL
    THEN renderSleeve3D(arm, side, shoulderWidth)
    ELSE << >>

\* Each render routine gives the grids it makes and the drawImage calls it
\* sets out to make, in order.
Nothing == [grids |-> << >>, plan |-> << >>]

renderShirt3D(m) ==
    IF m.shoulders = NULL \/ m.hips = NULL
    THEN Nothing
    ELSE LET shoulderWidth == Abs(m.shoulders.right.x - m.shoulders.left.x)
             meshGrid == createClothMeshGrid(m, "torso")
         IN  [grids |-> << [section |-> "torso", grid |-> meshGrid] >>,
              plan  |-> drawWarpedMesh(meshGrid, 1)
                        \o SleeveOf(m.arms.left, "left", shoulderWidth)
                        \o SleeveOf(m.arms.right, "right", shoulderWidth)]

\* renderDress3D with the hem on the knee line itself, not at 0.98 of it.
renderDress3DAtKnee(m) ==
    IF m.shoulders = NULL
    THEN Nothing
    ELSE LET shoulderWidth == Abs(m.shoulders.right.x - m.shoulders.left.x)
             topY    == m.shoulders.center.y
             bottomY == IF m.legs.left # NULL /\ m.legs.right # NULL
                        THEN (m.legs.left.knee.y + m.legs.right.knee.y) \div 2
                        ELSE topY + (shoulderWidth * 5) \div 2
             dressGrid == createDressMeshGrid(m, (shoulderWidth * 29) \div 20,
                                              (shoulderWidth * 37) \div 20,
                                              bottomY - topY)
         IN  [grids |-> << [section |-> "dress", grid |-> dressGrid] >>,
              plan  |-> drawWarpedMesh(dressGrid, 1)]

renderDress3D(m) ==
    IF m.shoulders = NULL
    THEN Nothing
    ELSE LET shoulderWidth == Abs(m.shoulders.right.x - m.shoulders.left.x)
             topY    == m.shoulders.center.y
             bottomY == IF m.legs.left # NULL /\ m.legs.right # NULL
                        THEN (((m.legs.left.knee.y + m.legs.right.knee.y) \div 2) * 98)
                                \div 100
                        ELSE topY + (shoulderWidth * 5) \div 2
             dressGrid == createDressMeshGrid(m, (shoulderWidth * 29) \div 20,
                                              (shoulderWidth * 37) \div 20,
                                              bottomY - topY)
         IN  [grids |-> << [section |-> "dress", grid |-> dressGrid] >>,
              plan  |-> drawWarpedMesh(dressGrid, 1)]

renderPants3D(m) ==
    IF m.hips = NULL \/ m.legs.left = NULL \/ m.legs.right = NULL
    THEN Nothing
    ELSE LET hipWidth  == Abs(m.hips.right.x - m.hips.left.x)
             leftGrid  == createPantLegMesh(m.legs.left, hipWidth, "left")
             rightGrid == createPantLegMesh(m.legs.right, hipWidth, "right")
         IN  [grids |-> << [section |-> "left", grid |-> leftGrid],
                           [section |-> "right", grid |-> rightGrid] >>,
              plan  |-> drawWarpedMesh(leftGrid, 1) \o drawWarpedMesh(rightGrid, 2)]

ClothingTypes == {"shirt", "jacket", "dress", "pants"}

\* switch (clothingType)
RenderOf(m, type) ==
    IF type \in {"shirt", "jacket"} THEN renderShirt3D(m)
    ELSE IF type = "dress" THEN renderDress3D(m)
    ELSE IF type = "pants" THEN renderPants3D(m)
    ELSE Nothing

\* A throwing drawImage that never leaves its caller's try block.
AfterThrowNoCatch(op) == "escapes"

\* What becomes of an exception thrown by a drawImage call: the one in
\* drawTexturedQuad sits in try/catch, the one in drawCylindricalSleeve
\* does not.
AfterThrow(op) == IF op = "quad" THEN "swallowed" ELSE "escapes"

\* The calls made, from the i-th of the plan on, when the calls numbered in
\* failing throw: a swallowed exception lets the next call follow, one that
\* escapes ends the render.
RECURSIVE Run(_, _, _)
Run(plan, i, failing) ==
    IF i > Len(plan)
    THEN << >>
    ELSE IF i \in failing
    THEN << [plan[i] EXCEPT !.thrown = TRUE] >>
         \o (IF AfterThrow(plan[i].op) = "escapes"
             THEN << >>
             ELSE Run(plan, i + 1, failing))
    ELSE << plan[i] >> \o Run(plan, i + 1, failing)

Escaped(log) ==
    IF log # << >> /\ log[Len(log)].thrown /\ AfterThrow(log[Len(log)].op) = "escapes"
    THEN log[Len(log)].op
    ELSE "none"

\* ctx.save() calls left without their ctx.restore(): one for every quad
\* whose drawImage threw (the restore of drawTexturedQuad is skipped), the
\* two of renderSleeve3D and drawCylindricalSleeve when a sleeve threw, and
\* the one of renderClothing when the exception left it.
Unrestored(log) ==
    Cardinality({i \in 1..Len(log) : log[i].thrown /\ log[i].op = "quad"})
    + (IF Escaped(log) = "sleeve" THEN 2 ELSE 0)
    + (IF Escaped(log) # "none" THEN 1 ELSE 0)

MaxFailures == 2

\* The sets of at most k of the calls 1..n.
RECURSIVE FailureSets(_, _)
FailureSets(n, k) ==
    IF k = 0
    THEN {{}}
    ELSE LET fewer == FailureSets(n, k - 1)
         IN  fewer \cup {S \cup {i} : S \in fewer, i \in 1..n}

\* if (processedFront && clothingType && mesh) renderClothing(...), with a
\* front image at hand; any of the drawImage calls may throw.
RenderClothing ==
    /\ stage = "meshed"
    /\ mesh # NULL
    /\ \E type \in ClothingTypes :
          \E made \in {RenderOf(mesh, type)} :
             \E failing \in FailureSets(Len(made.plan), MaxFailures) :
                \E log \in {Run(made.plan, 1, failing)} :
                   /\ clothingType' = type
                   /\ meshGrids' = made.grids
                   /\ drawLog' = log
                   /\ escaped' = Escaped(log)
                   /\ saveDepth' = saveDepth + Unrestored(log)
    /\ stage' = "rendered"
    /\ UNCHANGED <<keypoints, pixelMeasurements, mesh, bodyOrientation, pxArgs, pxOut, window, stability, poseQuality, componentVars>>

RenderKeypoints ==
    {Keypoint("left_shoulder", 200, 150, 9), Keypoint("right_shoulder", 300, 150, 9),
     Keypoint("left_elbow", 180, 220, 9),
     Keypoint("left_hip", 210, 300, 9), Keypoint("right_hip", 290, 300, 9),
     Keypoint("left_knee", 212, 380, 9), Keypoint("right_knee", 288, 400, 9),
     Keypoint("left_ankle", 214, 460, 9)}

DetectRender == \E k \in RenderKeypoints : Detect(k, 0)

NextRender == DetectRender \/ BuildBodyMesh \/ RenderClothing

SpecRender == InitFrame /\ [][NextRender]_vars

----------------------------------------------------------------------------
(* Double-precision arithmetic, as pxToCm's "/" and "*" carry it out *)

\* A finite non-zero double is m * 2^e with m a sequence of Precision bits,
\* the first one 1 (most significant first) and e the weight of the last.
Precision == 53

Zero == [kind |-> "zero"]

Infinity == [kind |-> "inf"]

NaN == [kind |-> "nan"]

Num(m, e) == [kind |-> "num", m |-> m, e |-> e]

Zeros(n) == [i \in 1..n |-> 0]

AnyOne(bits) == \E i \in 1..Len(bits) : bits[i] = 1

RECURSIVE NatBitsOnto(_, _)
NatBitsOnto(n, acc) ==
    IF n = 0 THEN acc ELSE NatBitsOnto(n \div 2, << n % 2 >> \o acc)

\* The binary digits of a natural number, none for 0.
NatBits(n) == NatBitsOnto(n, << >>)

StripZeros(bits) ==
    LET oneAt == {i \in 1..Len(bits) : bits[i] = 1}
    IN  IF oneAt = {} THEN << >>
        ELSE SubSeq(bits, CHOOSE i \in oneAt : \A j \in oneAt : i <= j, Len(bits))

\* bits + 1; one digit longer when bits are all 1.
Inc(bits) ==
    LET zeroAt == {i \in 1..Len(bits) : bits[i] = 0}
    IN  IF zeroAt = {}
        THEN << 1 >> \o Zeros(Len(bits))
        ELSE LET j == CHOOSE i \in zeroAt : \A k \in zeroAt : k <= i
             IN  [i \in 1..Len(bits) |->
                    IF i < j THEN bits[i] ELSE IF i = j THEN 1 ELSE 0]

\* The double nearest to bits * 2^e (plus a non-zero remainder below the
\* last bit when sticky), ties to the even mantissa.
RoundBits(bits, e, sticky) ==
    LET b == StripZeros(bits)
        n == Len(b)
    IN  IF n = 0 THEN Zero
        ELSE IF n <= Precision
        THEN Num(b \o Zeros(Precision - n), e - (Precision - n))
        ELSE LET kept == SubSeq(b, 1, Precision)
                 rest == SubSeq(b, Precision + 1, n)
                 up   == /\ rest[1] = 1
                         /\ (sticky \/ AnyOne(Tail(rest)) \/ kept[Precision] = 1)
                 m    == IF up THEN Inc(kept) ELSE kept
             IN  IF Len(m) > Precision
                 THEN Num(SubSeq(m, 1, Precision), e + Len(rest) + 1)
                 ELSE Num(m, e + Len(rest))

\* Long digit sequences are worked on in limbs of LimbWidth digits.
LimbWidth == 12

LimbBase == 2 ^ LimbWidth

RECURSIVE LimbValue(_, _, _)
LimbValue(bits, i, acc) ==
    IF i > Len(bits) THEN acc ELSE LimbValue(bits, i + 1, 2 * acc + bits[i])

ToLimbs(bits) ==
    LET k      == (Len(bits) + LimbWidth - 1) \div LimbWidth
        padded == Zeros(k * LimbWidth - Len(bits)) \o bits
    IN  [j \in 1..k |->
           LimbValue(SubSeq(padded, (j - 1) * LimbWidth + 1, j * LimbWidth), 1, 0)]

FromLimbs(limbs) ==
    [i \in 1..(Len(limbs) * LimbWidth) |->
       (limbs[((i - 1) \div LimbWidth) + 1]
          \div (2 ^ (LimbWidth - 1 - ((i - 1) % LimbWidth)))) % 2]

\* 2^i modulo h, by repeated squaring.
RECURSIVE PowerOfTwoMod(_, _)
PowerOfTwoMod(i, h) ==
    IF i = 0 THEN 1 % h
    ELSE IF i % 2 = 1 THEN (2 * PowerOfTwoMod(i - 1, h)) % h
    ELSE LET half == PowerOfTwoMod(i \div 2, h) IN (half * half) % h

\* What is left of rem / h after i digits of its binary fraction.
RemainderAfter(rem, h, i) == (rem * PowerOfTwoMod(i, h)) % h

\* The first n digits of the binary fraction rem / h, rem < h.
FractionBits(rem, h, n) ==
    [i \in 1..n |-> IF 2 * RemainderAfter(rem, h, i - 1) >= h THEN 1 ELSE 0]

\* r / h in double precision, r and h natural numbers.
Divide(r, h) ==
    IF h = 0 THEN (IF r = 0 THEN NaN ELSE Infinity)
    ELSE IF r = 0 THEN Zero
    ELSE LET n == Precision + 2 + Len(NatBits(h))
         IN  RoundBits(NatBits(r \div h) \o FractionBits(r % h, h, n), -n,
                       RemainderAfter(r % h, h, n) # 0)

\* The limbs of limbs * p, from limb j down, carry in hand.
RECURSIVE TimesNat(_, _, _, _, _)
TimesNat(limbs, j, p, carry, acc) ==
    IF j = 0
    THEN << carry >> \o acc
    ELSE TimesNat(limbs, j - 1, p, (limbs[j] * p + carry) \div LimbBase,
                  << (limbs[j] * p + carry) % LimbBase >> \o acc)

\* p * x in double precision, p a natural number.
Multiply(p, x) ==
    IF x.kind = "nan" THEN NaN
    ELSE IF x.kind = "inf" THEN (IF p = 0 THEN NaN ELSE Infinity)
    ELSE IF x.kind = "zero" \/ p = 0 THEN Zero
    ELSE LET limbs == ToLimbs(x.m)
         IN  RoundBits(FromLimbs(TimesNat(limbs, Len(limbs), p, 0, << >>)), x.e, FALSE)

\* The limbs of a + b, two limb sequences of one length.
RECURSIVE PlusLimbs(_, _, _, _, _)
PlusLimbs(a, b, j, carry, acc) ==
    IF j = 0
    THEN << carry >> \o acc
    ELSE PlusLimbs(a, b, j - 1, (a[j] + b[j] + carry) \div LimbBase,
                   << (a[j] + b[j] + carry) % LimbBase >> \o acc)

\* Two finite non-zero doubles as digit sequences of one length and weight.
Aligned(x, y) ==
    LET e  == IF x.e < y.e THEN x.e ELSE y.e
        bx == x.m \o Zeros(x.e - e)
        by == y.m \o Zeros(y.e - e)
        n  == IF Len(bx) > Len(by) THEN Len(bx) ELSE Len(by)
    IN  [a |-> Zeros(n - Len(bx)) \o bx, b |-> Zeros(n - Len(by)) \o by, e |-> e]

\* x + y in double precision, neither negative.
Plus(x, y) ==
    IF x.kind = "nan" \/ y.kind = "nan" THEN NaN
    ELSE IF x.kind = "inf" \/ y.kind = "inf" THEN Infinity
    ELSE IF x.kind = "zero" THEN y
    ELSE IF y.kind = "zero" THEN x
    ELSE LET al == Aligned(x, y)
             a  == ToLimbs(al.a)
             b  == ToLimbs(al.b)
         IN  RoundBits(FromLimbs(PlusLimbs(a, b, Len(a), 0, << >>)), al.e, FALSE)

----------------------------------------------------------------------------
(* pxToCm (src/utils/pixelToCm.js) *)

\* pxToCm with the scale upside down (pixel height over real height).
pxToCmInverted(pixels, videoHeightPx, realUserHeightCm) ==
    Multiply(pixels, Divide(videoHeightPx, realUserHeightCm))

\* scale = realUserHeightCm / videoHeightPx; return pixels * scale;
pxToCm(pixels, videoHeightPx, realUserHeightCm) ==
    Multiply(pixels, Divide(realUserHeightCm, videoHeightPx))

MaxPixels == 8

VideoHeights == {0, 10, 480}

ReferenceLengths == {0, 1, 170}

\* Two pixel distances and their sum are converted with one frame height
\* and one reference length.
ConvertPixels ==
    /\ stage = "scale"
    /\ pxOut' = [a   |-> pxToCm(pxArgs.a, pxArgs.videoHeightPx, pxArgs.realUserHeightCm),
                 b   |-> pxToCm(pxArgs.b, pxArgs.videoHeightPx, pxArgs.realUserHeightCm),
                 sum |-> pxToCm(pxArgs.a + pxArgs.b, pxArgs.videoHeightPx,
                                pxArgs.realUserHeightCm)]
    /\ stage' = "scaled"
    /\ UNCHANGED <<keypoints, pixelMeasurements, mesh, bodyOrientation, clothingType,
                   meshGrids, drawLog, escaped, saveDepth, pxArgs,
                   window, stability, poseQuality, componentVars>>

InitScale ==
    /\ keypoints = << >>
    /\ stage = "scale"
    /\ pixelMeasurements = NULL
    /\ mesh = NULL
    /\ bodyOrientation = "front"
    /\ clothingType = "none"
    /\ meshGrids = << >>
    /\ drawLog = << >>
    /\ escaped = "none"
    /\ saveDepth = 0
    /\ pxArgs \in [a : 0..MaxPixels, b : 0..MaxPixels,
                   videoHeightPx : VideoHeights, realUserHeightCm : ReferenceLengths]
    /\ pxOut = NULL
    /\ window = << >>
    /\ stability = "collecting"
    /\ poseQuality = "none"
    /\ Mounted("VirtualTryOn3D")

NextScale == ConvertPixels

SpecScale == InitScale /\ [][NextScale]_vars

----------------------------------------------------------------------------
(* Stability filter (spec 4.2) *)

WindowCapacity == 10

VarianceThreshold == 5

\* push the new sample, evict the oldest beyond capacity
Pushed(w, sample) ==
    LET all == Append(w, sample)
    IN  IF Len(all) > WindowCapacity
        THEN SubSeq(all, Len(all) - WindowCapacity + 1, Len(all))
        ELSE all

RECURSIVE SumOver(_, _, _)
SumOver(w, field, i) ==
    IF i > Len(w) THEN 0 ELSE w[i][field] + SumOver(w, field, i + 1)

RECURSIVE SquaredDeviations(_, _, _, _)
SquaredDeviations(w, field, total, i) ==
    IF i > Len(w) THEN 0
    ELSE (Len(w) * w[i][field] - total) * (Len(w) * w[i][field] - total)
            + SquaredDeviations(w, field, total, i + 1)

\* The population variance of one field is below the threshold: with n
\* samples and mean = total / n, sum((x - mean)^2) / n < threshold, taken
\* times n^3 to stay in whole numbers.
VarianceBelowThreshold(w, field) ==
    SquaredDeviations(w, field, SumOver(w, field, 1), 1)
        < VarianceThreshold * Len(w) * Len(w) * Len(w)

\* The filter looking at the variance of the shoulder width alone.
StabilityOfShoulderWidth(w) ==
    IF Len(w) < WindowCapacity
    THEN "collecting"
    ELSE IF VarianceBelowThreshold(w, "shoulderWidthPx")
    THEN "stable"
    ELSE "unstable"

\* if the window is not full, "collecting, not yet stable"; else "stable"
\* iff all four variances are below the threshold
StabilityOf(w) ==
    IF Len(w) < WindowCapacity
    THEN "collecting"
    ELSE IF \A field \in DOMAIN w[1] : VarianceBelowThreshold(w, field)
    THEN "stable"
    ELSE "unstable"

\* The measurement sets offered to the filter, in pixels: a steady one, one
\* whose shoulder width is 4 pixels off and one whose full height is 10
\* pixels off.
MeasurementSamples ==
    {[shoulderWidthPx |-> 100, torsoHeightPx |-> 150, fullHeightPx |-> 400, chestPx |-> 130],
     [shoulderWidthPx |-> 104, torsoHeightPx |-> 150, fullHeightPx |-> 400, chestPx |-> 135],
     [shoulderWidthPx |-> 100, torsoHeightPx |-> 150, fullHeightPx |-> 410, chestPx |-> 130]}

PushMeasurement ==
    /\ stage = "measure"
    /\ \E sample \in MeasurementSamples :
          /\ window' = Pushed(window, sample)
          /\ stability' = StabilityOf(Pushed(window, sample))
    /\ UNCHANGED <<keypoints, stage, pixelMeasurements, mesh, bodyOrientation, clothingType,
                   meshGrids, drawLog, escaped, saveDepth, pxArgs, pxOut, poseQuality, componentVars>>

InitStability ==
    /\ keypoints = << >>
    /\ stage = "measure"
    /\ pixelMeasurements = NULL
    /\ mesh = NULL
    /\ bodyOrientation = "front"
    /\ clothingType = "none"
    /\ meshGrids = << >>
    /\ drawLog = << >>
    /\ escaped = "none"
    /\ saveDepth = 0
    /\ pxArgs = NULL
    /\ pxOut = NULL
    /\ window = << >>
    /\ stability = "collecting"
    /\ poseQuality = "none"
    /\ Mounted("VirtualTryOn3D")

NextStability == PushMeasurement

SpecStability == InitStability /\ [][NextStability]_vars

----------------------------------------------------------------------------
(* Pose quality classifier (spec 4.1) *)

RequiredJoints ==
    {"nose", "left_shoulder", "right_shoulder", "left_hip", "right_hip",
     "left_ankle", "right_ankle"}

VisibleConfidence == 3

TooFarBelow == 60

TooCloseAbove == 220

\* The keypoints of a joint that are visible: confidence > 0.3.
VisibleAt(kps, name) ==
    {i \in 1..Len(kps) : kps[i].name = name /\ kps[i].score > VisibleConfidence}

\* The classifier calling a shoulder width of exactly 60 too far.
classifyPoseQualityFarAtLimit(kps) ==
    IF Len(kps) = 0 THEN "NoPose"
    ELSE IF Cardinality({n \in RequiredJoints : VisibleAt(kps, n) # {}})
               < Cardinality(RequiredJoints) - 1
    THEN "Partial"
    ELSE IF VisibleAt(kps, "left_shoulder") # {} /\ VisibleAt(kps, "right_shoulder") # {}
    THEN LET ls == kps[CHOOSE i \in VisibleAt(kps, "left_shoulder") : TRUE]
             rs == kps[CHOOSE i \in VisibleAt(kps, "right_shoulder") : TRUE]
         IN  IF Abs(rs.x - ls.x) <= Px(TooFarBelow) THEN "TooFar"
             ELSE IF Abs(rs.x - ls.x) > Px(TooCloseAbove) THEN "TooClose"
             ELSE "Good"
    ELSE "Good"

\* zero keypoints: NoPose; fewer visible required joints than all but one:
\* Partial; both shoulders visible and their width below 60 or above 220:
\* TooFar, TooClose; otherwise Good.
classifyPoseQuality(kps) ==
    IF Len(kps) = 0 THEN "NoPose"
    ELSE IF Cardinality({n \in RequiredJoints : VisibleAt(kps, n) # {}})
               < Cardinality(RequiredJoints) - 1
    THEN "Partial"
    ELSE IF VisibleAt(kps, "left_shoulder") # {} /\ VisibleAt(kps, "right_shoulder") # {}
    THEN LET ls == kps[CHOOSE i \in VisibleAt(kps, "left_shoulder") : TRUE]
             rs == kps[CHOOSE i \in VisibleAt(kps, "right_shoulder") : TRUE]
         IN  IF Abs(rs.x - ls.x) < Px(TooFarBelow) THEN "TooFar"
             ELSE IF Abs(rs.x - ls.x) > Px(TooCloseAbove) THEN "TooClose"
             ELSE "Good"
    ELSE "Good"

ClassifyPose ==
    /\ stage = "detect"
    /\ poseQuality' = classifyPoseQuality(keypoints)
    /\ stage' = "classified"
    /\ UNCHANGED <<keypoints, pixelMeasurements, mesh, bodyOrientation, clothingType,
                   meshGrids, drawLog, escaped, saveDepth, pxArgs, pxOut, window, stability, componentVars>>

\* Frames of the seven required joints and a knee: the right shoulder 40,
\* 59, 60, 100, 220, 221 and 250 pixels from the left one, and some joints
\* at a confidence of exactly 0.3.
QualityKeypoints ==
    {Keypoint("nose", 250, 100, 9),
     Keypoint("left_shoulder", 200, 150, 9), Keypoint("left_shoulder", 200, 150, 3),
     Keypoint("right_shoulder", 300, 150, 3),
     Keypoint("left_hip", 210, 300, 9), Keypoint("left_hip", 210, 300, 3),
     Keypoint("right_hip", 290, 300, 9),
     Keypoint("left_knee", 212, 380, 9),
     Keypoint("left_ankle", 214, 460, 9), Keypoint("right_ankle", 286, 460, 9)}
    \cup {Keypoint("right_shoulder", 200 + w, 150, 9) : w \in {40, 59, 60, 100, 220, 221, 250}}
    \cup {Keypoint("right_shoulder", 200 - w, 150, 9) : w \in {40, 100}}

DetectQuality == \E k \in QualityKeypoints : Detect(k, 0)

NextQuality == DetectQuality \/ ClassifyPose

SpecQuality == InitFrame /\ [][NextQuality]_vars

----------------------------------------------------------------------------
(* What the claims speak of *)

\* The frame has a keypoint of this name, whatever its score.
Present(kps, name) == \E i \in 1..Len(kps) : kps[i].name = name

\* The frame has a keypoint of this name with a score above 0.3.
Visible(kps, name) ==
    \E i \in 1..Len(kps) : kps[i].name = name /\ kps[i].score > MinScore

\* keypoints.find(k => k.name === name): the first keypoint of this name.
Named(kps, name) ==
    kps[CHOOSE i \in 1..Len(kps) :
            /\ kps[i].name = name
            /\ \A j \in 1..(i - 1) : kps[j].name # name]

Meshed == stage = "meshed" /\ mesh # NULL

\* |nose.x - shoulderMidX| / |right_shoulder.x - left_shoulder.x| > 0.4 on
\* the keypoints of the frame, for a frame that has all three.
NoseFarFromShoulderMiddle(kps) ==
    5 * Abs(2 * Named(kps, "nose").x - Named(kps, "left_shoulder").x
              - Named(kps, "right_shoulder").x)
        > 4 * Abs(Named(kps, "right_shoulder").x - Named(kps, "left_shoulder").x)

\* shoulderWidth < 0.8 x hipWidth on the keypoints of the frame.
HipsWiderThanShoulders(kps) ==
    5 * Abs(Named(kps, "right_shoulder").x - Named(kps, "left_shoulder").x)
        < 4 * Abs(Named(kps, "right_hip").x - Named(kps, "left_hip").x)

Populated(limb, joints) ==
    /\ limb # NULL
    /\ \A j \in joints : limb[j] # NULL /\ {"x", "y"} \subseteq DOMAIN limb[j]

ArmJoints == {"shoulder", "elbow", "wrist"}

LegJoints == {"hip", "knee", "ankle"}

----------------------------------------------------------------------------
(* C1 *)

MeasurementFields == {"shoulderWidthPx", "torsoHeightPx", "fullHeightPx", "chestPx"}

\* C1: for a frame that is null, empty or lacks one of left_shoulder,
\* right_shoulder, left_hip, right_hip, nose, extractPixelMeasurements
\* returns null; for a frame with all five it returns a set with exactly the
\* four fields, never a part of them.
C1_AllFourOrAbsent ==
    stage = "measured" =>
        IF keypoints = NoFrame
        THEN pixelMeasurements = NULL
        ELSE IF \E n \in RequiredForMeasurement : ~Present(keypoints, n)
        THEN pixelMeasurements = NULL
        ELSE /\ pixelMeasurements # NULL
             /\ DOMAIN pixelMeasurements = MeasurementFields

\* A frame with all five joints, one of them at a score of 0.3, measured.
C1_Witness ==
    /\ stage = "measured"
    /\ keypoints # NoFrame
    /\ \A n \in RequiredForMeasurement : Present(keypoints, n)
    /\ \E i \in 1..Len(keypoints) : keypoints[i].score <= MinScore
    /\ pixelMeasurements # NULL

----------------------------------------------------------------------------
(* C2 *)

\* C2 as stated: buildBodyMesh returns null exactly when the frame does not
\* hold both a left_shoulder and a right_shoulder keypoint.
C2_NullIffShoulderNotPresent ==
    stage = "meshed" =>
        (mesh = NULL <=> ~(Present(keypoints, "left_shoulder")
                           /\ Present(keypoints, "right_shoulder")))

\* C2, amended: buildBodyMesh returns null exactly when the frame does not
\* hold both a left_shoulder and a right_shoulder keypoint with a score above
\* 0.3; every other frame yields a mesh whose shoulders are those keypoints.
C2_NullIffShoulderNotVisible ==
    stage = "meshed" =>
        /\ mesh = NULL <=> ~(Visible(keypoints, "left_shoulder")
                             /\ Visible(keypoints, "right_shoulder"))
        /\ mesh # NULL =>
              /\ mesh.shoulders.left = Named(keypoints, "left_shoulder")
              /\ mesh.shoulders.right = Named(keypoints, "right_shoulder")

\* Both shoulders are in the frame, one of them at a score of 0.3 or less,
\* and no mesh is built.
C2_Witness ==
    /\ stage = "meshed"
    /\ mesh = NULL
    /\ Present(keypoints, "left_shoulder")
    /\ Present(keypoints, "right_shoulder")

----------------------------------------------------------------------------
(* C3 *)

\* C3 as stated: a mesh built from a frame whose nose lies more than 0.4
\* shoulder spans from the shoulder middle has orientation side.
C3_SideWheneverNoseFar ==
    (Meshed /\ Present(keypoints, "nose") /\ NoseFarFromShoulderMiddle(keypoints))
        => mesh.orientation = "side"

\* C3, amended: a mesh built from a frame whose nose has a score above 0.3
\* and lies more than 0.4 shoulder spans from the shoulder middle has
\* orientation side, whatever the hips; with a nose at 0.3 or less the
\* orientation is never side.
C3_SideWheneverVisibleNoseFar ==
    Meshed =>
        /\ mesh.orientation = bodyOrientation
        /\ (Visible(keypoints, "nose") /\ NoseFarFromShoulderMiddle(keypoints))
              => mesh.orientation = "side"
        /\ ~Visible(keypoints, "nose") => mesh.orientation # "side"

\* A side mesh from a frame whose hips are both visible and wider than the
\* shoulders by the back test's margin.
C3_Witness ==
    /\ Meshed
    /\ mesh.orientation = "side"
    /\ Visible(keypoints, "left_hip") /\ Visible(keypoints, "right_hip")
    /\ HipsWiderThanShoulders(keypoints)

----------------------------------------------------------------------------
(* C4 *)

\* C4 as stated, for a frame that holds a nose: when the nose offset ratio
\* is <= 0.4, orientation is back if and only if both hips are present and
\* shoulderWidth < 0.8 x hipWidth, and front otherwise; when the ratio is
\* above 0.4 the orientation is side, also when the back condition holds.
C4_BackIffHipsPresentAndWider ==
    (Meshed /\ Present(keypoints, "nose")) =>
        IF NoseFarFromShoulderMiddle(keypoints)
        THEN mesh.orientation = "side"
        ELSE IF Present(keypoints, "left_hip") /\ Present(keypoints, "right_hip")
                /\ HipsWiderThanShoulders(keypoints)
        THEN mesh.orientation = "back"
        ELSE mesh.orientation = "front"

\* C4, amended: with a visible nose (score above 0.3) and the side test not
\* firing, orientation is back if and only if both hips are visible and
\* shoulderWidth < 0.8 x hipWidth, and front otherwise; when the side test
\* fires on a visible nose the orientation is side, also when the back
\* condition holds; without a visible nose the orientation is front.
C4_BackIffHipsVisibleAndWider ==
    Meshed =>
        IF ~Visible(keypoints, "nose")
        THEN mesh.orientation = "front"
        ELSE IF NoseFarFromShoulderMiddle(keypoints)
        THEN mesh.orientation = "side"
        ELSE IF Visible(keypoints, "left_hip") /\ Visible(keypoints, "right_hip")
                /\ HipsWiderThanShoulders(keypoints)
        THEN mesh.orientation = "back"
        ELSE mesh.orientation = "front"

\* A back mesh: visible nose near the shoulder middle, visible hips wider
\* than the shoulders.
C4_Witness ==
    /\ Meshed
    /\ mesh.orientation = "back"
    /\ Visible(keypoints, "nose")
    /\ ~NoseFarFromShoulderMiddle(keypoints)

----------------------------------------------------------------------------
(* C5 *)

\* C5 as stated: in every mesh both arms and both legs are there with all
\* three joints.
C5_LimbsAlwaysPopulated ==
    Meshed =>
        /\ Populated(mesh.arms.left, ArmJoints)
        /\ Populated(mesh.arms.right, ArmJoints)
        /\ Populated(mesh.legs.left, LegJoints)
        /\ Populated(mesh.legs.right, LegJoints)

\* C5, amended: in every mesh both arms are there with shoulder, elbow and
\* wrist; a leg is there, with hip, knee and ankle, exactly when its hip
\* keypoint is visible (score above 0.3), and is null otherwise, whichever
\* elbow, wrist, knee or ankle keypoints are missing.
C5_ArmsPopulatedLegsWithHip ==
    Meshed =>
        /\ Populated(mesh.arms.left, ArmJoints)
        /\ Populated(mesh.arms.right, ArmJoints)
        /\ \A side \in {"left", "right"} :
              IF Visible(keypoints, side \o "_hip")
              THEN Populated(mesh.legs[side], LegJoints)
              ELSE mesh.legs[side] = NULL

\* A mesh with a leg whose knee and ankle keypoints are both missing and an
\* arm whose elbow and wrist keypoints are both missing.
C5_Witness ==
    /\ Meshed
    /\ Visible(keypoints, "left_hip")
    /\ ~Present(keypoints, "left_knee") /\ ~Present(keypoints, "left_ankle")
    /\ ~Present(keypoints, "left_elbow") /\ ~Present(keypoints, "left_wrist")
    /\ Populated(mesh.legs.left, LegJoints)
    /\ Populated(mesh.arms.left, ArmJoints)
    /\ mesh.legs.right = NULL

----------------------------------------------------------------------------
(* C6 - C8: the mesh grids and their quads *)

Rendered == stage = "rendered"

\* The layout each grid is generated with.
LayoutOf(section) ==
    IF section = "torso" THEN [rows |-> TorsoRows, cols |-> TorsoCols]
    ELSE IF section = "dress" THEN [rows |-> DressRows, cols |-> DressCols]
    ELSE [rows |-> LegRows, cols |-> LegCols]

\* The drawTexturedQuad calls that drawWarpedMesh call n made, in order.
QuadsOfCall(n) ==
    LET OfCall(e) == e.op = "quad" /\ e.call = n
    IN  SelectSeq(drawLog, OfCall)

\* The corners (points and texture coordinates) of one quad.
Corners(e) == [p |-> e.p, uv |-> e.uv]

\* The 2x2 blocks of neighbouring cells of a grid laid out in rows x cols,
\* corners in the order top left, top right, bottom right, bottom left.
BlocksOf(grid, rows, cols) ==
    {[p  |-> << grid.points[r * cols + c + 1], grid.points[r * cols + c + 2],
                grid.points[(r + 1) * cols + c + 2], grid.points[(r + 1) * cols + c + 1] >>,
      uv |-> << grid.uvs[r * cols + c + 1], grid.uvs[r * cols + c + 2],
                grid.uvs[(r + 1) * cols + c + 2], grid.uvs[(r + 1) * cols + c + 1] >>] :
        r \in 0..(rows - 2), c \in 0..(cols - 2)}

C7_QuadsAreGridBlocks ==
    (Rendered /\ escaped = "none") =>
        \A n \in 1..Len(meshGrids) :
           LET layout == LayoutOf(meshGrids[n].section)
               quads  == QuadsOfCall(n)
           IN  /\ Len(quads) = (layout.rows - 1) * (layout.cols - 1)
               /\ {Corners(quads[k]) : k \in 1..Len(quads)}
                     = BlocksOf(meshGrids[n].grid, layout.rows, layout.cols)

\* C8: a drawImage failure inside drawTexturedQuad never leaves
\* renderClothing, and whichever quads fail, every quad of every grid is
\* still attempted, in the order of the loop.
C8_QuadFailuresSwallowed ==
    Rendered =>
        /\ escaped # "quad"
        /\ (escaped = "none" =>
              \A n \in 1..Len(meshGrids) :
                 LET quads == QuadsOfCall(n)
                 IN  [k \in 1..Len(quads) |-> [quads[k] EXCEPT !.thrown = FALSE]]
                        = drawWarpedMesh(meshGrids[n].grid, n))
        /\ \A i \in 1..Len(drawLog) :
              (drawLog[i].op = "quad" /\ drawLog[i].thrown) =>
                 (i < Len(drawLog) \/ Len(QuadsOfCall(drawLog[i].call))
                     = Len(drawWarpedMesh(meshGrids[drawLog[i].call].grid, drawLog[i].call)))

\* A render in which a quad's drawImage threw and later quads of the same
\* grid were drawn all the same.
C8_Witness ==
    /\ Rendered
    /\ escaped = "none"
    /\ \E i \in 1..Len(drawLog) : \E j \in (i + 1)..Len(drawLog) :
          /\ drawLog[i].op = "quad" /\ drawLog[i].thrown
          /\ drawLog[j].op = "quad" /\ ~drawLog[j].thrown
          /\ drawLog[j].call = drawLog[i].call

----------------------------------------------------------------------------
(* C9, C10: pxToCm *)

Scaled == stage = "scaled"

Finite(x) == x.kind \in {"zero", "num"}

\* The limbs of a - b, a >= b, two limb sequences of one length.
RECURSIVE MinusLimbs(_, _, _, _, _)
MinusLimbs(a, b, j, borrow, acc) ==
    IF j = 0
    THEN acc
    ELSE IF a[j] - b[j] - borrow < 0
    THEN MinusLimbs(a, b, j - 1, 1, << a[j] - b[j] - borrow + LimbBase >> \o acc)
    ELSE MinusLimbs(a, b, j - 1, 0, << a[j] - b[j] - borrow >> \o acc)

\* a >= b for two limb sequences of one length.
LimbsAtLeast(a, b) ==
    \/ a = b
    \/ \E j \in 1..Len(a) : a[j] > b[j] /\ \A i \in 1..(j - 1) : a[i] = b[i]

\* |x - y| <= 2^-50 * max(x, y) for two finite doubles, none negative: with
\* both written as whole numbers of one weight, the larger one hi of n
\* digits, the difference is at most hi / 2^50, the leading n - 50 digits
\* of hi.
WithinRounding(x, y) ==
    IF x.kind # "num" \/ y.kind # "num"
    THEN x = y
    ELSE LET al   == Aligned(x, y)
             n    == Len(al.a)
             a    == ToLimbs(al.a)
             b    == ToLimbs(al.b)
             hi   == IF LimbsAtLeast(a, b) THEN a ELSE b
             lo   == IF LimbsAtLeast(a, b) THEN b ELSE a
             hiBits == IF LimbsAtLeast(a, b) THEN al.a ELSE al.b
             diff == MinusLimbs(hi, lo, Len(hi), 0, << >>)
         IN  /\ n <= Precision + 1
             /\ \A j \in 1..(Len(diff) - 1) : diff[j] = 0
             /\ diff[Len(diff)]
                  <= LimbValue(SubSeq(hiBits, 1, n - (Precision - 3)), 1, 0)

\* C9 as stated: pxToCm ends in an error, with no number returned, when the
\* frame's pixel height is 0, and returns a finite number otherwise.
C9_FailsExactlyOnZeroHeight ==
    Scaled =>
        IF pxArgs.videoHeightPx = 0
        THEN pxOut.a.kind = "error"
        ELSE Finite(pxOut.a)

\* C10 as stated: pxToCm(a + b, H, R) equals pxToCm(a, H, R) + pxToCm(b, H, R)
\* and pxToCm(p, H, R) equals p * (R / H), for H # 0.
C10_Additive ==
    (Scaled /\ pxArgs.videoHeightPx # 0) =>
        /\ pxOut.sum = Plus(pxOut.a, pxOut.b)
        /\ pxOut.a = Multiply(pxArgs.a, Divide(pxArgs.realUserHeightCm, pxArgs.videoHeightPx))

\* C10, amended: for H # 0, pxToCm(p, H, R) is the double p * (R / H), the
\* quotient rounded first and the product after, and pxToCm(a + b, H, R)
\* agrees with pxToCm(a, H, R) + pxToCm(b, H, R) up to rounding: the two
\* differ by at most 2^-50 of the larger.
C10_AdditiveUpToRounding ==
    (Scaled /\ pxArgs.videoHeightPx # 0) =>
        /\ WithinRounding(pxOut.sum, Plus(pxOut.a, pxOut.b))
        /\ pxOut.a = Multiply(pxArgs.a, Divide(pxArgs.realUserHeightCm, pxArgs.videoHeightPx))
        /\ pxOut.b = Multiply(pxArgs.b, Divide(pxArgs.realUserHeightCm, pxArgs.videoHeightPx))
        /\ pxOut.sum = Multiply(pxArgs.a + pxArgs.b,
                                Divide(pxArgs.realUserHeightCm, pxArgs.videoHeightPx))

\* Two distances whose converted sum and sum of conversions are different
\* doubles, one rounding step apart: 1 and 5 pixels at 1 cm per 10 pixels.
C10_Witness ==
    /\ Scaled
    /\ pxArgs = [a |-> 1, b |-> 5, videoHeightPx |-> 10, realUserHeightCm |-> 1]
    /\ pxOut.sum # Plus(pxOut.a, pxOut.b)
    /\ WithinRounding(pxOut.sum, Plus(pxOut.a, pxOut.b))

----------------------------------------------------------------------------
(* C11: the stability window *)

RECURSIVE SumOfSquares(_, _, _)
SumOfSquares(w, field, i) ==
    IF i > Len(w) THEN 0 ELSE w[i][field] * w[i][field] + SumOfSquares(w, field, i + 1)

\* variance = mean of squares - square of mean < 5, times n^2
LowVariance(w, field) ==
    Len(w) * SumOfSquares(w, field, 1) - SumOver(w, field, 1) * SumOver(w, field, 1)
        < 5 * Len(w) * Len(w)

\* C11: with every push the window takes the new sample last and drops its
\* oldest one once it holds 10; it never holds more than 10; the filter
\* reports stable if and only if 10 samples are held and the population
\* variance of each of the four fields is below 5.0.
C11_WindowBoundedStableIffLowVariance ==
    [][/\ Len(window') <= 10
       /\ Len(window') = (IF Len(window) < 10 THEN Len(window) + 1 ELSE 10)
       /\ \A i \in 1..(Len(window') - 1) :
             window'[i] = window[i + (IF Len(window) < 10 THEN 0 ELSE 1)]
       /\ (stability' = "stable") <=>
             (/\ Len(window') = 10
              /\ \A field \in {"shoulderWidthPx", "torsoHeightPx", "fullHeightPx", "chestPx"} :
                    LowVariance(window', field))]_vars

\* Ten identical samples are held and the filter reports stable.
C11_Witness ==
    /\ Len(window) = 10
    /\ \A i \in 1..10 : window[i] = window[1]
    /\ stability = "stable"

----------------------------------------------------------------------------
(* C12: the quality classifier *)

Classified == stage = "classified"

VisibleRequired(kps) ==
    {n \in {"nose", "left_shoulder", "right_shoulder", "left_hip", "right_hip",
            "left_ankle", "right_ankle"} : Visible(kps, n)}

ShoulderWidthPx(kps) ==
    Abs(Named(kps, "right_shoulder").x - Named(kps, "left_shoulder").x)

\* C12: an empty frame is NoPose; a frame with fewer than 6 of the 7
\* required joints visible is Partial; a frame with at least 6 of them
\* visible, both shoulders among them, is TooFar when the shoulders are less
\* than 60 pixels apart in x, TooClose when more than 220, Good otherwise.
C12_QualityByShoulderWidth ==
    Classified =>
        IF keypoints = << >> THEN poseQuality = "NoPose"
        ELSE IF Cardinality(VisibleRequired(keypoints)) < 6 THEN poseQuality = "Partial"
        ELSE (Visible(keypoints, "left_shoulder") /\ Visible(keypoints, "right_shoulder")) =>
                IF ShoulderWidthPx(keypoints) < Px(60) THEN poseQuality = "TooFar"
                ELSE IF ShoulderWidthPx(keypoints) > Px(220) THEN poseQuality = "TooClose"
                ELSE poseQuality = "Good"

\* A frame with one required joint not visible and the shoulders exactly 60
\* pixels apart is classified Good.
C12_Witness ==
    /\ Classified
    /\ Cardinality(VisibleRequired(keypoints)) = 6
    /\ Visible(keypoints, "left_shoulder") /\ Visible(keypoints, "right_shoulder")
    /\ ShoulderWidthPx(keypoints) = Px(60)
    /\ poseQuality = "Good"

----------------------------------------------------------------------------
(* C13: the body-height estimate *)

\* |avg(left_ankle.y, right_ankle.y) - nose.y| on the keypoints of the frame.
AnkleToNosePx(kps) ==
    Abs((Named(kps, "left_ankle").y + Named(kps, "right_ankle").y) \div 2
          - Named(kps, "nose").y)

\* The pixel estimate the mesh was scaled with: pixelsPerCm is the real
\* height over it.
EstimateOf(m) == m.measurements.pixelsPerCm.den

\* C13 as stated: the estimate is |avg(ankle y) - nose.y| whenever both
\* ankles are visible and 400 exactly when they are not both visible;
\* pixelsPerCm is the real height over the estimate.
C13_EstimateFromAnkles ==
    Meshed =>
        /\ mesh.measurements.pixelsPerCm.num = 170 * Unit
        /\ IF Visible(keypoints, "left_ankle") /\ Visible(keypoints, "right_ankle")
           THEN Present(keypoints, "nose") /\ EstimateOf(mesh) = AnkleToNosePx(keypoints)
           ELSE EstimateOf(mesh) = Px(400)

\* C13, amended: the estimate is |avg(ankle y) - nose.y| whenever the nose
\* and both ankles are visible (score above 0.3), and the fallback 400 is
\* used exactly when the nose and the two ankles are not all three visible;
\* pixelsPerCm is the real height over the estimate.
C13_EstimateFromAnklesAndNose ==
    Meshed =>
        /\ mesh.measurements.pixelsPerCm.num = 170 * Unit
        /\ IF /\ Visible(keypoints, "nose")
              /\ Visible(keypoints, "left_ankle") /\ Visible(keypoints, "right_ankle")
           THEN EstimateOf(mesh) = AnkleToNosePx(keypoints)
           ELSE EstimateOf(mesh) = Px(400)

\* Both ankles visible, the nose in the frame at a score of 0.3: the
\* fallback is used.
C13_Witness ==
    /\ Meshed
    /\ Visible(keypoints, "left_ankle") /\ Visible(keypoints, "right_ankle")
    /\ Present(keypoints, "nose") /\ ~Visible(keypoints, "nose")
    /\ EstimateOf(mesh) = Px(400)
    /\ AnkleToNosePx(keypoints) = Px(360)

----------------------------------------------------------------------------
(* C14: synthesized limb joints *)

Sides == {"left", "right"}

\* The point lies dx, dy pixels from the joint.
OffsetFrom(point, joint, dx, dy) ==
    point.x = joint.x + Px(dx) /\ point.y = joint.y + Px(dy)

ElbowOffsetX(side) == IF side = "left" THEN -30 ELSE 30

\* C14 as stated: a missing elbow lies at shoulder + (-30 left / +30 right,
\* +60) and a missing knee at hip + (0, +80); a wrist or ankle missing as
\* well lies at the synthesized elbow + (0, +60), the synthesized knee +
\* (0, +80), in both coordinates.
C14_TerminalFromSynthesized ==
    Meshed =>
        \A side \in Sides :
           /\ ~Visible(keypoints, side \o "_elbow") =>
                 /\ OffsetFrom(mesh.arms[side].elbow, mesh.arms[side].shoulder,
                               ElbowOffsetX(side), 60)
                 /\ ~Visible(keypoints, side \o "_wrist") =>
                       OffsetFrom(mesh.arms[side].wrist, mesh.arms[side].elbow, 0, 60)
           /\ (mesh.legs[side] # NULL /\ ~Visible(keypoints, side \o "_knee")) =>
                 /\ OffsetFrom(mesh.legs[side].knee, mesh.legs[side].hip, 0, 80)
                 /\ ~Visible(keypoints, side \o "_ankle") =>
                       OffsetFrom(mesh.legs[side].ankle, mesh.legs[side].knee, 0, 80)

\* C14, amended: a missing elbow lies at shoulder + (-30 left / +30 right,
\* +60) and a missing knee at hip + (0, +80); an ankle missing as well lies
\* at the synthesized knee + (0, +80); a wrist missing as well lies 60 below
\* the synthesized elbow in y but at the shoulder's own x: wrist = shoulder +
\* (0, +120).  Missing means not in the frame with a score above 0.3.
C14_WristBelowShoulder ==
    Meshed =>
        \A side \in Sides :
           /\ ~Visible(keypoints, side \o "_elbow") =>
                 /\ OffsetFrom(mesh.arms[side].elbow, mesh.arms[side].shoulder,
                               ElbowOffsetX(side), 60)
                 /\ ~Visible(keypoints, side \o "_wrist") =>
                       /\ OffsetFrom(mesh.arms[side].wrist, mesh.arms[side].shoulder, 0, 120)
                       /\ mesh.arms[side].wrist.y = mesh.arms[side].elbow.y + Px(60)
           /\ (mesh.legs[side] # NULL /\ ~Visible(keypoints, side \o "_knee")) =>
                 /\ OffsetFrom(mesh.legs[side].knee, mesh.legs[side].hip, 0, 80)
                 /\ ~Visible(keypoints, side \o "_ankle") =>
                       OffsetFrom(mesh.legs[side].ankle, mesh.legs[side].knee, 0, 80)

\* A mesh whose right arm has neither elbow nor wrist keypoint and whose
\* left leg has neither knee nor ankle keypoint.
C14_Witness ==
    /\ Meshed
    /\ ~Visible(keypoints, "right_elbow") /\ ~Visible(keypoints, "right_wrist")
    /\ mesh.arms.right.elbow.x = mesh.arms.right.shoulder.x + Px(30)
    /\ mesh.arms.right.wrist.x = mesh.arms.right.shoulder.x
    /\ mesh.legs.left # NULL
    /\ ~Visible(keypoints, "left_knee") /\ ~Visible(keypoints, "left_ankle")
    /\ mesh.legs.left.ankle.y = mesh.legs.left.hip.y + Px(160)

----------------------------------------------------------------------------
(* C15: waist and hips *)

\* The point is the midpoint of the two joints in x and y.
MidpointOf(point, a, b) ==
    2 * point.x = a.x + b.x /\ 2 * point.y = a.y + b.y

\* C15 as stated: with both hips present the waist point of each side is
\* the midpoint of that side's shoulder and hip in x and y and the hips
\* points are the hip keypoints; waist and hips are null exactly when the
\* hips are not both present.
C15_WaistIsMidpoint ==
    Meshed =>
        IF Present(keypoints, "left_hip") /\ Present(keypoints, "right_hip")
        THEN /\ mesh.waist # NULL /\ mesh.hips # NULL
             /\ \A side \in Sides :
                   /\ MidpointOf(mesh.waist[side], Named(keypoints, side \o "_shoulder"),
                                 Named(keypoints, side \o "_hip"))
                   /\ mesh.hips[side] = Named(keypoints, side \o "_hip")
        ELSE mesh.waist = NULL /\ mesh.hips = NULL

\* C15, amended: with both hips visible (score above 0.3) the waist point
\* of each side has the y midway between that side's shoulder and hip and
\* the x of the hip, and the hips points are the hip keypoints; waist and
\* hips are null exactly when the hips are not both visible.
C15_WaistMidwayInYAtHipX ==
    Meshed =>
        IF Visible(keypoints, "left_hip") /\ Visible(keypoints, "right_hip")
        THEN /\ mesh.waist # NULL /\ mesh.hips # NULL
             /\ \A side \in Sides :
                   /\ 2 * mesh.waist[side].y
                         = Named(keypoints, side \o "_shoulder").y
                           + Named(keypoints, side \o "_hip").y
                   /\ mesh.waist[side].x = Named(keypoints, side \o "_hip").x
                   /\ mesh.hips[side] = Named(keypoints, side \o "_hip")
        ELSE mesh.waist = NULL /\ mesh.hips = NULL

\* A mesh with both hips visible, the left hip 10 pixels right of the left
\* shoulder: the waist is at the hip's x.
C15_Witness ==
    /\ Meshed
    /\ Visible(keypoints, "left_hip") /\ Visible(keypoints, "right_hip")
    /\ mesh.waist # NULL
    /\ mesh.waist.left.x = Px(210)
    /\ Named(keypoints, "left_shoulder").x = Px(200)
    /\ mesh.waist.left.y = Px(225)

----------------------------------------------------------------------------
(* C16: the chest points *)

\* The point lies beyond the joint, on the side away from the other joint.
OutwardOf(point, joint, other) ==
    IF joint.x < other.x THEN point.x <= joint.x
    ELSE IF joint.x > other.x THEN point.x >= joint.x
    ELSE point.x = joint.x

\* C16 as stated: each chest point lies 0.15 x shoulderWidth outward of its
\* own shoulder's x, at y = shoulder y + 0.4 x shoulderWidth, and the chest
\* spans 1.3 x the shoulder span, whichever shoulder has the smaller x.
C16_ChestOutwardOfShoulders ==
    Meshed =>
        LET ls == mesh.shoulders.left
            rs == mesh.shoulders.right
            w  == Abs(rs.x - ls.x)
        IN  /\ 20 * Abs(mesh.chest.left.x - ls.x) = 3 * w
            /\ 20 * Abs(mesh.chest.right.x - rs.x) = 3 * w
            /\ OutwardOf(mesh.chest.left, ls, rs)
            /\ OutwardOf(mesh.chest.right, rs, ls)
            /\ 5 * (mesh.chest.left.y - ls.y) = 2 * w
            /\ mesh.chest.right.y = mesh.chest.left.y
            /\ 10 * Abs(mesh.chest.right.x - mesh.chest.left.x) = 13 * w

----------------------------------------------------------------------------
(* C17: the dress hem *)

DressRendered == Rendered /\ clothingType = "dress" /\ meshGrids # << >>

\* The y shared by the points of one row of the dress grid (rows from 0).
DressRowY(row) == meshGrids[1].grid.points[row * 4 + 1].y

DressRowLevel(row) ==
    \A col \in 1..4 : meshGrids[1].grid.points[row * 4 + col].y = DressRowY(row)

\* Twice the shoulder line's y, and the shoulder width, on the keypoints.
ShoulderLineY2(kps) == Named(kps, "left_shoulder").y + Named(kps, "right_shoulder").y

\* The y of a side's knee in the mesh: the knee keypoint when visible, else
\* 80 pixels below the hip.
KneeY(kps, side) ==
    IF Visible(kps, side \o "_knee")
    THEN Named(kps, side \o "_knee").y
    ELSE Named(kps, side \o "_hip").y + Px(80)

\* C17 as stated: the first row of the dress grid lies on the shoulder line;
\* the last row lies on the knee line when both knee keypoints are visible,
\* and 2.5 x shoulderWidth below the shoulder line otherwise.
C17_HemAtKneeLine ==
    DressRendered =>
        /\ DressRowLevel(0) /\ DressRowLevel(5)
        /\ 2 * DressRowY(0) = ShoulderLineY2(keypoints)
        /\ IF Visible(keypoints, "left_knee") /\ Visible(keypoints, "right_knee")
           THEN 2 * DressRowY(5)
                   = Named(keypoints, "left_knee").y + Named(keypoints, "right_knee").y
           ELSE 2 * DressRowY(5)
                   = ShoulderLineY2(keypoints) + 5 * ShoulderWidthPx(keypoints)

\* C17, amended: the first row lies on the shoulder line; when both hips
\* are visible (so that both legs of the mesh have a knee, detected or
\* placed 80 pixels below the hip) the last row lies at 0.98 x the mean y of
\* the two knees of the mesh; otherwise it lies 2.5 x shoulderWidth below
\* the shoulder line.
C17_HemNearMeshKnees ==
    DressRendered =>
        /\ DressRowLevel(0) /\ DressRowLevel(5)
        /\ 2 * DressRowY(0) = ShoulderLineY2(keypoints)
        /\ IF Visible(keypoints, "left_hip") /\ Visible(keypoints, "right_hip")
           THEN 200 * DressRowY(5)
                   = 98 * (KneeY(keypoints, "left") + KneeY(keypoints, "right"))
           ELSE 2 * DressRowY(5)
                   = ShoulderLineY2(keypoints) + 5 * ShoulderWidthPx(keypoints)

\* A dress on a frame with both hips and the right knee visible and no left
\* knee keypoint: the hem is at 0.98 x (380 + 400) / 2 = 382.2.
C17_Witness ==
    /\ DressRendered
    /\ Visible(keypoints, "left_hip") /\ Visible(keypoints, "right_hip")
    /\ Visible(keypoints, "right_knee") /\ ~Present(keypoints, "left_knee")
    /\ DressRowY(5) = 38220

----------------------------------------------------------------------------
(* C18: texture coordinates *)

UVsOf(n) == meshGrids[n].grid.uvs

\* C18: every texture coordinate pair of every grid lies in [0,1] x [0,1];
\* in a left leg grid every u lies in [0, 0.5], in a right leg grid in
\* [0.5, 1], both ends taken; in both v is 0 on the first row, which lies at
\* the hip, 1 on the last, which lies at the ankle, and never falls from
\* one row to the next.
C18_TextureCoordinatesInRange ==
    Rendered =>
        \A n \in 1..Len(meshGrids) :
           LET uvs     == UVsOf(n)
               points  == meshGrids[n].grid.points
               section == meshGrids[n].section
               us      == {uvs[i].u : i \in 1..Len(uvs)}
           IN  /\ \A i \in 1..Len(uvs) :
                     /\ 0 <= uvs[i].u /\ uvs[i].u <= UVUnit
                     /\ 0 <= uvs[i].v /\ uvs[i].v <= UVUnit
               /\ section = "left" =>
                     /\ \A u \in us : 2 * u <= UVUnit
                     /\ 0 \in us /\ \E u \in us : 2 * u = UVUnit
               /\ section = "right" =>
                     /\ \A u \in us : 2 * u >= UVUnit
                     /\ UVUnit \in us /\ \E u \in us : 2 * u = UVUnit
               /\ section \in {"left", "right"} =>
                     /\ \A i \in 1..3 :
                           uvs[i].v = 0 /\ points[i].y = mesh.legs[section].hip.y
                     /\ \A i \in 13..15 :
                           uvs[i].v = UVUnit /\ points[i].y = mesh.legs[section].ankle.y
                     /\ \A i \in 1..14 : uvs[i].v <= uvs[i + 1].v

\* A pants render: the left grid's u runs 0, 0.25, 0.5 and the right grid's
\* 0.5, 0.75, 1.
C18_Witness ==
    /\ Rendered
    /\ clothingType = "pants"
    /\ Len(meshGrids) = 2
    /\ {UVsOf(1)[i].u : i \in 1..15} = {0, UVUnit \div 4, UVUnit \div 2}
    /\ {UVsOf(2)[i].u : i \in 1..15} = {UVUnit \div 2, (3 * UVUnit) \div 4, UVUnit}

----------------------------------------------------------------------------
(* C19: the extracted values *)

Measured == stage = "measured" /\ pixelMeasurements # NULL

\* y is the largest y among the keypoints of the frame.
LargestY(kps, y) ==
    /\ \E i \in 1..Len(kps) : kps[i].y = y
    /\ \A i \in 1..Len(kps) : kps[i].y <= y

\* d is the distance between the two points, cut to the fixed-point step.
DistanceBetween(d, a, b) ==
    /\ d >= 0
    /\ d * d <= (a.x - b.x) * (a.x - b.x) + (a.y - b.y) * (a.y - b.y)
    /\ (d + 1) * (d + 1) > (a.x - b.x) * (a.x - b.x) + (a.y - b.y) * (a.y - b.y)

----------------------------------------------------------------------------
(* C20: extraction does not look at the scores *)

\* The frame with its scores replaced, names and positions kept.
Rescored(kps, scores) ==
    [i \in 1..Len(kps) |-> [kps[i] EXCEPT !.score = scores[i]]]

\* C20: a frame and every frame with the same names and positions and any
\* scores of 0 or 0.9 in place of its own (0.3 or 0.9) give the same result
\* of extractPixelMeasurements: both null or the same four values.
C20_ScoresDoNotMatter ==
    (stage = "measured" /\ keypoints # NoFrame) =>
        \A scores \in [1..Len(keypoints) -> {0, 9}] :
           extractPixelMeasurements(Rescored(keypoints, scores)) = pixelMeasurements

\* A measured frame of the five joints, scores of 0.3 and of 0.9 among them,
\* that gives the four values also with every score set to 0.
C20_Witness ==
    /\ Measured
    /\ \E i \in 1..Len(keypoints) : keypoints[i].score = 3
    /\ \E i \in 1..Len(keypoints) : keypoints[i].score = 9
    /\ extractPixelMeasurements(Rescored(keypoints, [i \in 1..Len(keypoints) |-> 0]))
          = pixelMeasurements

----------------------------------------------------------------------------
(* VirtualTryOn3D and PoseDetector: initialisation, garment images and the *)
(* animation-frame loop                                                    *)

Components == {"VirtualTryOn3D", "PoseDetector"}

\* The garment images selected in one session, front and back together.
MaxUploads == 2

\* HTMLMediaElement.readyState: HAVE_NOTHING, HAVE_CURRENT_DATA and
\* HAVE_ENOUGH_DATA.
ReadyStates == {0, 2, 4}

\* What the pose model, the mesh builder and the canvas do in one call of a
\* loop function: estimatePoses rejects, resolves without a pose or with one;
\* buildBodyMesh returns null or a mesh facing front or back; a drawImage of
\* the garment throws out of renderClothing or does not.
Worlds ==
    [estimate : {"throws", "none", "pose"},
     mesh : {"null", "front", "back"},
     draw : {"ok", "throws"}]

\* renderClothing's choice of the image to draw.
ActiveImage(frontImg, backImg, orientation) ==
    IF orientation = "back" /\ backImg # NoImage THEN backImg ELSE frontImg

\* detectAndRender with its requestAnimationFrame as the last statement of
\* the try block.
detectAndRenderRequestInTry(self, video, world) ==
    IF self.detector = "null" \/ video # 4
    THEN [estimated |-> FALSE, threw |-> FALSE, garment |-> NoImage,
          requested |-> 1]
    ELSE LET garment ==
                 IF /\ world.estimate = "pose"
                    /\ self.processedFront # NoImage
                    /\ world.mesh # "null"
                 THEN ActiveImage(self.processedFront, self.processedBack,
                                  world.mesh)
                 ELSE NoImage
             threw ==
                 \/ world.estimate = "throws"
                 \/ garment # NoImage /\ world.draw = "throws"
         IN  [estimated |-> TRUE, threw |-> threw, garment |-> garment,
              requested |-> IF threw THEN 0 ELSE 1]

\* detectAndRender without the readyState test in its guard.
detectAndRenderAnyReadyState(self, video, world) ==
    IF self.detector = "null"
    THEN [estimated |-> FALSE, threw |-> FALSE, garment |-> NoImage,
          requested |-> 1]
    ELSE LET garment ==
                 IF /\ world.estimate = "pose"
                    /\ self.processedFront # NoImage
                    /\ world.mesh # "null"
                 THEN ActiveImage(self.processedFront, self.processedBack,
                                  world.mesh)
                 ELSE NoImage
             threw ==
                 \/ world.estimate = "throws"
                 \/ garment # NoImage /\ world.draw = "throws"
         IN  [estimated |-> TRUE, threw |-> threw, garment |-> garment,
              requested |-> 1]

\* One call of detectAndRender by the closure self, which holds the detector
\* and the processed images of the render that made it.  video is
\* videoRef.current.readyState at the call.  The result tells whether
\* estimatePoses was called, whether the try block caught an exception, the
\* garment image handed to renderClothing and how many times
\* requestAnimationFrame(detectAndRender) was called.
detectAndRender(self, video, world) ==
    IF self.detector = "null" \/ video # 4
    THEN [estimated |-> FALSE, threw |-> FALSE, garment |-> NoImage,
          requested |-> 1]
    ELSE LET garment ==
                 IF /\ world.estimate = "pose"
                    /\ self.processedFront # NoImage
                    /\ world.mesh # "null"
                 THEN ActiveImage(self.processedFront, self.processedBack,
                                  world.mesh)
                 ELSE NoImage
             threw ==
                 \/ world.estimate = "throws"
                 \/ garment # NoImage /\ world.draw = "throws"
         IN  [estimated |-> TRUE, threw |-> threw, garment |-> garment,
              requested |-> 1]

\* One call of PoseDetector's detectPose: the same guard, then estimatePoses,
\* drawResults and onPoseDetected inside the try block, then the request.
detectPose(self, video, world) ==
    IF self.detector = "null" \/ video # 4
    THEN [estimated |-> FALSE, threw |-> FALSE, garment |-> NoImage,
          requested |-> 1]
    ELSE [estimated |-> TRUE,
          threw |-> (\/ world.estimate = "throws"
                     \/ world.estimate = "pose" /\ world.draw = "throws"),
          garment |-> NoImage, requested |-> 1]

\* The record of a call of the mounted component's loop function.
Call(self, world) ==
    LET did == IF component = "VirtualTryOn3D"
               THEN detectAndRender(self, readyState, world)
               ELSE detectPose(self, readyState, world)
    IN  [called |-> TRUE, detector |-> self.detector,
         front |-> self.processedFront, back |-> self.processedBack,
         estimated |-> did.estimated, video |-> readyState,
         threw |-> did.threw, garment |-> did.garment,
         requested |-> did.requested]

\* n requests of the callback self.
Requests(self, n) == IF n = 0 THEN EmptyBag ELSE self :> n

\* The effect on [detector, processedFront, processedBack] (PoseDetector: on
\* [detector]), run after a render in which one of them changed to d, f, b:
\* it calls the loop function of that render when the detector is set.
StartLoop(d, f, b) ==
    IF d # "null"
    THEN \E world \in Worlds :
             LET self == [detector |-> d, processedFront |-> f,
                          processedBack |-> b]
                 did == Call(self, world)
             IN  /\ lastCall' = did
                 /\ loops' = loops (+) Requests(self, did.requested)
    ELSE UNCHANGED <<loops, lastCall>>

\* The browser runs one of the callbacks it was handed.
AnimationFrame ==
    \E self \in BagToSet(loops), world \in Worlds :
        LET did == Call(self, world)
        IN  /\ lastCall' = did
            /\ loops' = (loops (-) SetToBag({self}))
                            (+) Requests(self, did.requested)
            /\ UNCHANGED <<frameVars, component, pending, isReady, detector,
                           srcObject, readyState, frontClothing, backClothing,
                           processedFront, processedBack, isProcessing, loads,
                           uploads>>

\* initDetector called in a render whose isReady is ready: the promises it
\* leaves waiting.
initDetector(ready) == IF ~ready THEN {} ELSE {"detector"}

\* The effect on [isReady], run after a render in which isReady became ready.
ReadyEffect(ready) ==
    IF ready THEN {"camera"} \cup initDetector(ready) ELSE {}

\* initTensorFlow: tf.ready() and tf.setBackend resolve, setIsReady(true);
\* the effect on [isReady] then calls setupCamera() and initDetector().
InitTensorFlowResolves ==
    /\ "tensorflow" \in pending
    /\ isReady' = TRUE
    /\ pending' = (pending \ {"tensorflow"}) \cup ReadyEffect(TRUE)
    /\ UNCHANGED <<frameVars, component, detector, srcObject, readyState,
                   frontClothing, backClothing, processedFront, processedBack,
                   isProcessing, loads, uploads, loops, lastCall>>

\* initTensorFlow: tf.ready() or tf.setBackend rejects, the catch logs it.
InitTensorFlowRejects ==
    /\ "tensorflow" \in pending
    /\ pending' = pending \ {"tensorflow"}
    /\ UNCHANGED <<frameVars, component, isReady, detector, srcObject,
                   readyState, frontClothing, backClothing, processedFront,
                   processedBack, isProcessing, loads, uploads, loops,
                   lastCall>>

\* setupCamera: getUserMedia resolves and the stream is put on the video.
SetupCameraResolves ==
    /\ "camera" \in pending
    /\ pending' = pending \ {"camera"}
    /\ srcObject' = TRUE
    /\ UNCHANGED <<frameVars, component, isReady, detector, readyState,
                   frontClothing, backClothing, processedFront, processedBack,
                   isProcessing, loads, uploads, loops, lastCall>>

\* setupCamera: getUserMedia rejects, the catch logs it.
SetupCameraRejects ==
    /\ "camera" \in pending
    /\ pending' = pending \ {"camera"}
    /\ UNCHANGED <<frameVars, component, isReady, detector, srcObject,
                   readyState, frontClothing, backClothing, processedFront,
                   processedBack, isProcessing, loads, uploads, loops,
                   lastCall>>

\* The video element with a stream moves between its ready states.
VideoProgress ==
    /\ srcObject
    /\ \E s \in ReadyStates \ {readyState} : readyState' = s
    /\ UNCHANGED <<frameVars, component, pending, isReady, detector,
                   srcObject, frontClothing, backClothing, processedFront,
                   processedBack, isProcessing, loads, uploads, loops,
                   lastCall>>

\* initDetector: createDetector resolves, setDetector(poseDetector), and the
\* loop effect runs on the new detector.
InitDetectorResolves ==
    /\ "detector" \in pending
    /\ pending' = pending \ {"detector"}
    /\ detector' = "moveNet"
    /\ StartLoop("moveNet", processedFront, processedBack)
    /\ UNCHANGED <<frameVars, component, isReady, srcObject, readyState,
                   frontClothing, backClothing, processedFront, processedBack,
                   isProcessing, loads, uploads>>

\* initDetector: createDetector rejects, the catch logs it.
InitDetectorRejects ==
    /\ "detector" \in pending
    /\ pending' = pending \ {"detector"}
    /\ UNCHANGED <<frameVars, component, isReady, detector, srcObject,
                   readyState, frontClothing, backClothing, processedFront,
                   processedBack, isProcessing, loads, uploads, loops,
                   lastCall>>

\* handleFrontUpload: the reader's onload calls setFrontClothing with a data
\* URL not selected before; the effect on [frontClothing] sets isProcessing
\* and starts loading the image.
HandleFrontUpload ==
    /\ component = "VirtualTryOn3D"
    /\ uploads < MaxUploads
    /\ uploads' = uploads + 1
    /\ frontClothing' = uploads + 1
    /\ isProcessing' = TRUE
    /\ loads' = loads \cup
           {[side |-> "front", image |-> uploads + 1, state |-> "loading"]}
    /\ UNCHANGED <<frameVars, component, pending, isReady, detector,
                   srcObject, readyState, backClothing, processedFront,
                   processedBack, loops, lastCall>>

\* handleBackUpload: the same for the back view, without isProcessing.
HandleBackUpload ==
    /\ component = "VirtualTryOn3D"
    /\ uploads < MaxUploads
    /\ uploads' = uploads + 1
    /\ backClothing' = uploads + 1
    /\ loads' = loads \cup
           {[side |-> "back", image |-> uploads + 1, state |-> "loading"]}
    /\ UNCHANGED <<frameVars, component, pending, isReady, detector,
                   srcObject, readyState, frontClothing, processedFront,
                   processedBack, isProcessing, loops, lastCall>>

\* The remove button of the front view: setFrontClothing(null); the effect
\* on [frontClothing] runs and does nothing for a null image.
RemoveFront ==
    /\ component = "VirtualTryOn3D"
    /\ frontClothing # NoImage
    /\ frontClothing' = NoImage
    /\ UNCHANGED <<frameVars, component, pending, isReady, detector,
                   srcObject, readyState, backClothing, processedFront,
                   processedBack, isProcessing, loads, uploads, loops,
                   lastCall>>

\* The remove button of the back view: setBackClothing(null).
RemoveBack ==
    /\ component = "VirtualTryOn3D"
    /\ backClothing # NoImage
    /\ backClothing' = NoImage
    /\ UNCHANGED <<frameVars, component, pending, isReady, detector,
                   srcObject, readyState, frontClothing, processedFront,
                   processedBack, isProcessing, loads, uploads, loops,
                   lastCall>>

\* img.onload fires: removeBackground draws the image, clears its background
\* and waits for the processed image to load.
ImageLoads ==
    \E l \in loads :
        /\ l.state = "loading"
        /\ loads' = (loads \ {l}) \cup {[l EXCEPT !.state = "removing"]}
        /\ UNCHANGED <<frameVars, component, pending, isReady, detector,
                       srcObject, readyState, frontClothing, backClothing,
                       processedFront, processedBack, isProcessing, uploads,
                       loops, lastCall>>

\* The image cannot be decoded: onload never fires and the effect has set no
\* onerror handler.
ImageFails ==
    \E l \in loads :
        /\ l.state = "loading"
        /\ loads' = (loads \ {l}) \cup {[l EXCEPT !.state = "error"]}
        /\ UNCHANGED <<frameVars, component, pending, isReady, detector,
                       srcObject, readyState, frontClothing, backClothing,
                       processedFront, processedBack, isProcessing, uploads,
                       loops, lastCall>>

\* removeBackground resolves: setProcessedFront(processed) and
\* setIsProcessing(false), or setProcessedBack(processed); the loop effect
\* runs on the new image.
BackgroundRemoved ==
    \E l \in loads :
        /\ l.state = "removing"
        /\ loads' = loads \ {l}
        /\ IF l.side = "front"
           THEN /\ processedFront' = l.image
                /\ isProcessing' = FALSE
                /\ StartLoop(detector, l.image, processedBack)
                /\ UNCHANGED processedBack
           ELSE /\ processedBack' = l.image
                /\ StartLoop(detector, processedFront, l.image)
                /\ UNCHANGED <<processedFront, isProcessing>>
        /\ UNCHANGED <<frameVars, component, pending, isReady, detector,
                       srcObject, readyState, frontClothing, backClothing,
                       uploads>>

InitComponent ==
    /\ keypoints = << >>
    /\ stage = "detect"
    /\ pixelMeasurements = NULL
    /\ mesh = NULL
    /\ bodyOrientation = "front"
    /\ clothingType = "none"
    /\ meshGrids = << >>
    /\ drawLog = << >>
    /\ escaped = "none"
    /\ saveDepth = 0
    /\ pxArgs = NULL
    /\ pxOut = NULL
    /\ window = << >>
    /\ stability = "collecting"
    /\ poseQuality = "none"
    /\ \E c \in Components : Mounted(c)

NextComponent ==
    \/ InitTensorFlowResolves
    \/ InitTensorFlowRejects
    \/ SetupCameraResolves
    \/ SetupCameraRejects
    \/ VideoProgress
    \/ InitDetectorResolves
    \/ InitDetectorRejects
    \/ HandleFrontUpload
    \/ HandleBackUpload
    \/ RemoveFront
    \/ RemoveBack
    \/ ImageLoads
    \/ ImageFails
    \/ BackgroundRemoved
    \/ AnimationFrame

SpecComponent == InitComponent /\ [][NextComponent]_vars

----------------------------------------------------------------------------
(* What the claims about the components speak of *)

\* The closure whose call lastCall records.
CallerOf(call) ==
    [detector |-> call.detector, processedFront |-> call.front,
     processedBack |-> call.back]

\* The front-view loads that have neither finished nor failed.
FrontLoadsInFlight ==
    {l \in loads : l.side = "front" /\ l.state \in {"loading", "removing"}}

\* initTensorFlow has failed: it has settled and isReady was never set.
TensorFlowFailed == ~isReady /\ "tensorflow" \notin pending

----------------------------------------------------------------------------
(* C21 *)

\* C21: whatever detector creations and garment image changes have happened,
\* at most one detectAndRender callback is scheduled, and a scheduled
\* callback works with the current processedFront and processedBack.
C21_OneLoopWithCurrentImages ==
    /\ BagCardinality(loops) <= 1
    /\ \A self \in BagToSet(loops) :
           /\ self.processedFront = processedFront
           /\ self.processedBack = processedBack

----------------------------------------------------------------------------
(* C22 *)

\* C22: when renderClothing has returned or thrown, every ctx.save() made
\* during the call has been matched by a ctx.restore(), whether or not a
\* drawImage threw.
C22_EverySaveRestored == Rendered => saveDepth = 0

----------------------------------------------------------------------------
(* C23 *)

\* C23: a call of the loop function made while frontClothing is null hands no
\* garment to renderClothing, and one made while backClothing is null does
\* not hand it the back image.
C23_RemovedGarmentNotDrawn ==
    [][lastCall' # lastCall =>
          /\ frontClothing' = NoImage => lastCall'.garment = NoImage
          /\ backClothing' = NoImage =>
                 \/ lastCall'.garment = NoImage
                 \/ lastCall'.garment # lastCall'.back]_vars

----------------------------------------------------------------------------
(* C24 *)

\* C24: once no front-view load is left, none having failed, processedFront
\* is the image made from the frontClothing selected last.
C24_LastSelectionProcessed ==
    (frontClothing # NoImage /\ \A l \in loads : l.side # "front")
        => processedFront = frontClothing

----------------------------------------------------------------------------
(* C25 *)

\* C25: once every front-view load has finished or failed, so that nothing
\* is left that could end the processing, isProcessing is false.
C25_ProcessingEnds == FrontLoadsInFlight = {} => ~isProcessing

----------------------------------------------------------------------------
(* C26 *)

\* C26: every call of detectAndRender or detectPose, whichever way it went,
\* called requestAnimationFrame exactly once, and its callback is scheduled.
C26_EveryCallRequestsOneFrame ==
    lastCall.called =>
        /\ lastCall.requested = 1
        /\ CallerOf(lastCall) \in BagToSet(loops)

\* A call whose try block caught an exception requested its next frame.
C26_Witness ==
    /\ lastCall.called
    /\ lastCall.threw
    /\ lastCall.requested = 1
    /\ CallerOf(lastCall) \in BagToSet(loops)

----------------------------------------------------------------------------
(* C27 *)

\* C27: createDetector is called and the detector set only when isReady; a
\* loop is scheduled only when the detector is set; estimatePoses is called
\* only by a closure holding the detector and with the video at readyState
\* 4; when initTensorFlow has failed there is no detector, no loop and no
\* call at all.
C27_InitialisationOrdered ==
    /\ ("detector" \in pending \/ detector # "null") => isReady
    /\ loops # EmptyBag => detector # "null"
    /\ lastCall.called => detector # "null"
    /\ lastCall.estimated =>
           lastCall.detector # "null" /\ lastCall.video = 4
    /\ TensorFlowFailed =>
           /\ detector = "null"
           /\ "detector" \notin pending
           /\ loops = EmptyBag
           /\ ~lastCall.called

\* estimatePoses has been called, after the whole chain of initialisation.
C27_Witness ==
    /\ isReady
    /\ detector = "moveNet"
    /\ lastCall.estimated
    /\ lastCall.video = 4

====
